---------------------------- MODULE Spec2Model ----------------------------
(***************************************************************************)
(* A model of the Orion Vulkan convenience layer (jabenuk/orion_vk).       *)
(*                                                                         *)
(* The repository holds several revisions of the same subsystem side by    *)
(* side.  Each revision is modelled by its own next-state relation over    *)
(* the fields of the structure it works on:                                *)
(*                                                                         *)
(*   SpecVk    src/vulkan/vk_extension.c, src/vulkan/vk_init.c and the     *)
(*             dynamic-array macros of src/headers/orion_helpers.h         *)
(*             (an oriState with requested layers and extensions).         *)
(*                                                                         *)
(*   SpecLib   src/lib/init.c, src/lib/vk_ext.c and src/lib/debug.c        *)
(*             (the global _orion with its table of instance wrappers).    *)
(*                                                                         *)
(*   SpecState src/init.c and src/lib/extension.c                          *)
(*             (an oriState that owns the instances created from it).      *)
(*                                                                         *)
(*   SpecLife  the same revision as SpecLib with its callbacks, allocators *)
(*             and src/lib/vk_device.c: initialisation, logical devices,   *)
(*             termination and initialisation again.                       *)
(*                                                                         *)
(*   SpecDbg   src/vulkan/vk_debug.c, src/lib/error.c and src/error.c      *)
(*             (debug messengers and the error callback they relay to).    *)
(*                                                                         *)
(*   SpecEmit  the message emitters of src/headers/orion_helpers.h and of  *)
(*             src/lib/debug.c under every severity mask.                  *)
(*                                                                         *)
(*   SpecCreate  instance creation from an oriState in its three           *)
(*             revisions: src/vkabstract_core.c (linked lists),            *)
(*             src/vulkan and src/init.c.                                  *)
(*                                                                         *)
(*   SpecArray the dynamic-array macros of src/headers/orion_helpers.h     *)
(*             and of src/init.c applied to every small list.              *)
(*                                                                         *)
(* The Vulkan implementation is the environment: which layers exist and    *)
(* which extensions each provider offers is fixed (the oracle answers),    *)
(* whether vkCreateInstance succeeds is chosen at every call.              *)
(*                                                                         *)
(* The library is modelled as built with __oridebug defined, the build in  *)
(* which the diagnostics of vk_extension.c and vk_init.c are compiled in.  *)
(***************************************************************************)
EXTENDS Integers, Sequences, FiniteSets, TLC

(***************************************************************************)
(* Bounds of the model (not program constants).                            *)
(***************************************************************************)
MaxExt == 3
MaxLayers == 1
MaxInstances == 1
MaxArrayLen == 3

(***************************************************************************)
(* Values.                                                                 *)
(***************************************************************************)
NULL == "NULL"

\* What an out-of-bounds or uninitialised read yields.
Garbage == "GARBAGE"

\* The oriState object the caller holds.
StatePtr == "state"

\* Locations of the caller's VkInstance variables (instanceOut).
InstancePtrs == {"I1"}

DEBUG_UTILS == "VK_EXT_debug_utils"

\* Names a caller may pass as a layer / as an instance extension.
LayerNames == {"L1", "L2", "LX"}
ExtNames == {DEBUG_UTILS, "E1", "EX"}

Range(s) == {s[k] : k \in 1..Len(s)}

(***************************************************************************)
(* The environment: the Vulkan implementation's answers.                   *)
(***************************************************************************)
\* vkEnumerateInstanceLayerProperties: the layers that exist.
vkEnumerateInstanceLayerProperties == {"L1", "L2"}

\* vkEnumerateInstanceExtensionProperties(pLayerName): the extensions of the
\* implementation (pLayerName NULL) or of one layer.
vkEnumerateInstanceExtensionProperties(pLayerName) ==
    CASE pLayerName = NULL -> {DEBUG_UTILS}
      [] pLayerName = "L1" -> {"E1"}
      [] OTHER -> {}

(***************************************************************************)
(* Diagnostics.  A message is [severity, name, about]; about is the layer  *)
(* or extension the text names ("" when it names none).                    *)
(***************************************************************************)
Severities == {"VERBOSE", "NOTIF", "WARNING", "ERROR", "FATAL"}

Msg(sev, name, about) == [severity |-> sev, name |-> name, about |-> about]

\* _ori_ThrowError: the callback is invoked only if the severity is displayed.
_ori_ThrowError(mask, msg) ==
    IF msg.severity \in mask THEN <<msg>> ELSE <<>>

\* _ori_Warning / _ori_Notification: skipped when no severity at all is
\* displayed, otherwise formatted and passed to _ori_ThrowError.
_ori_Warning(mask, about) ==
    IF mask # {} THEN _ori_ThrowError(mask, Msg("WARNING", "", about)) ELSE <<>>

_ori_Notification(mask, about) ==
    IF mask # {} THEN _ori_ThrowError(mask, Msg("NOTIF", "", about)) ELSE <<>>

ORERR_NULL_POINTER == Msg("ERROR", "ERR_NULL_POINTER", "")
ORERR_VULKAN_RETURN_ERROR == Msg("ERROR", "ERR_VULKAN_RETURN_ERROR", "")

(***************************************************************************)
(* Dynamic collection helpers (orion_helpers.h).  Indices are the code's,  *)
(* zero-based; a sequence's element k is array[k - 1].                     *)
(***************************************************************************)
\* The old contents are copied to the stack, the array is reallocated one
\* longer and zeroed, the stack copy is copied back over all len + 1 slots
\* (the last read is one past the stack copy) and the value overwrites the
\* last slot.
_ori_AppendOntoDArray(array, value) ==
    LET len == Len(array)
        oldarr == [k \in 1..(len + 1) |-> IF k <= len THEN array[k] ELSE Garbage]
        copied == [k \in 1..(len + 1) |-> oldarr[k]]
    IN  [copied EXCEPT ![len + 1] = value]

\* A removal that zeroes the slot and neither shifts nor shrinks.
_ori_RemoveFromDArray_NoShift(array, index) ==
    IF index < Len(array) THEN [array EXCEPT ![index + 1] = NULL] ELSE array

\* index < len: the later elements move one to the left and len shrinks.
\* index = len passes the macro's test (index <= len) too: nothing moves and
\* len shrinks, dropping the last element.  index > len: nothing.
_ori_RemoveFromDArray(array, index) ==
    LET len == Len(array)
    IN  IF index <= len /\ len > 0
        THEN [k \in 1..(len - 1) |-> IF k <= index THEN array[k] ELSE array[k + 1]]
        ELSE array

(***************************************************************************)
(* The availability oracle (vk_extension.c).  Every query is recorded as   *)
(* <<name, provider>>.                                                     *)
(***************************************************************************)
oriCheckLayerAvailability(layer) ==
    layer \in vkEnumerateInstanceLayerProperties

oriCheckInstanceExtensionAvailability(extension, layer) ==
    extension \in vkEnumerateInstanceExtensionProperties(layer)


(***************************************************************************)
(* State.                                                                  *)
(*   enabledLayers, enabledExtensions   state->instanceCreateInfo          *)
(*   instances                          state->arrays.instances            *)
(*   displayedErrorSeverities           _orion.displayedErrorSeverities    *)
(*   createInstanceDebugMessengers      _orion.flags                       *)
(* Observation of the run:                                                 *)
(*   call       the last API call: its name and argument, its return       *)
(*              value, the messages it delivered to the error callback,    *)
(*              the oracle queries it made and the create info it handed   *)
(*              to vkCreateInstance (NoNative when it made no such call)   *)
(*   trail      how many calls of the sequence                             *)
(*                oriFlagInstanceExtensionEnabled("E1"),                   *)
(*                oriPruneInstanceExtensions, oriFlagLayerEnabled("L1"),   *)
(*                oriCreateInstance                                        *)
(*              the most recent calls make up                              *)
(*   trailWarn  the WARNINGs naming "E1" delivered since the trail began   *)
(***************************************************************************)
VARIABLES enabledLayers, enabledExtensions, instances,
          displayedErrorSeverities, createInstanceDebugMessengers,
          call, trail, trailWarn

vkVars == <<enabledLayers, enabledExtensions, instances,
            displayedErrorSeverities, createInstanceDebugMessengers,
            call, trail, trailWarn>>

NoNative == [called |-> FALSE, layers |-> <<>>, exts |-> <<>>, messenger |-> FALSE]

Native(layers, exts, messenger) ==
    [called |-> TRUE, layers |-> layers, exts |-> exts, messenger |-> messenger]

Call(op, arg, ret, emitted, queried, native) ==
    [op |-> op, arg |-> arg, ret |-> ret, emitted |-> emitted,
     queried |-> queried, native |-> native]

\* The WARNINGs among msgs that name `about`.
WarningsAbout(msgs, about) ==
    Cardinality({k \in 1..Len(msgs) :
                    msgs[k].severity = "WARNING" /\ msgs[k].about = about})

\* The trail after a call (op "" stands for a call refused for a NULL pointer).
Advance(k, op, name) ==
    IF k = 1 /\ op = "oriPruneInstanceExtensions" THEN 2
    ELSE IF k = 2 /\ op = "oriFlagLayerEnabled" /\ name = "L1" THEN 3
    ELSE IF k = 3 /\ op = "oriCreateInstance" THEN 4
    ELSE IF op = "oriFlagInstanceExtensionEnabled" /\ name = "E1" THEN 1
    ELSE 0

Observe(op, name, emitted) ==
    LET k == Advance(trail, op, name)
    IN  /\ trail' = k
        /\ trailWarn' = IF k <= 1 THEN 0
                        ELSE trailWarn + WarningsAbout(emitted, "E1")

(***************************************************************************)
(* Feature loading and enabling (vk_extension.c).  Each function is an     *)
(* operator from the fields it reads to the fields it writes and what it   *)
(* returns, delivers and queries.                                          *)
(***************************************************************************)
\* A layer flagging that does not consult the oracle.
oriFlagLayerEnabled_Unchecked(state, layers, mask, layer) ==
    IF state = NULL
    THEN [layers |-> layers, ret |-> "ERROR_NULL_POINTER",
          emitted |-> _ori_ThrowError(mask, ORERR_NULL_POINTER), queried |-> {}]
    ELSE [layers |-> _ori_AppendOntoDArray(layers, layer), ret |-> "OK",
          emitted |-> <<>>, queried |-> {}]

oriFlagLayerEnabled(state, layers, mask, layer) ==
    IF state = NULL
    THEN [layers |-> layers, ret |-> "ERROR_NULL_POINTER",
          emitted |-> _ori_ThrowError(mask, ORERR_NULL_POINTER), queried |-> {}]
    ELSE IF ~oriCheckLayerAvailability(layer)
    THEN [layers |-> layers, ret |-> "ERROR_NOT_FOUND",
          emitted |-> _ori_Warning(mask, layer), queried |-> {<<layer, NULL>>}]
    ELSE [layers |-> _ori_AppendOntoDArray(layers, layer), ret |-> "OK",
          emitted |-> <<>>, queried |-> {<<layer, NULL>>}]

\* An extension flagging that asks the oracle first, as the layer one does.
oriFlagInstanceExtensionEnabled_Checked(state, exts, mask, extension) ==
    IF state = NULL
    THEN [exts |-> exts, ret |-> "ERROR_NULL_POINTER",
          emitted |-> _ori_ThrowError(mask, ORERR_NULL_POINTER), queried |-> {}]
    ELSE IF ~oriCheckInstanceExtensionAvailability(extension, NULL)
    THEN [exts |-> exts, ret |-> "ERROR_NOT_FOUND",
          emitted |-> _ori_Warning(mask, extension),
          queried |-> {<<extension, NULL>>}]
    ELSE [exts |-> _ori_AppendOntoDArray(exts, extension), ret |-> "OK",
          emitted |-> <<>>, queried |-> {<<extension, NULL>>}]

oriFlagInstanceExtensionEnabled(state, exts, mask, extension) ==
    IF state = NULL
    THEN [exts |-> exts, ret |-> "ERROR_NULL_POINTER",
          emitted |-> _ori_ThrowError(mask, ORERR_NULL_POINTER), queried |-> {}]
    ELSE [exts |-> _ori_AppendOntoDArray(exts, extension), ret |-> "OK",
          emitted |-> <<>>, queried |-> {}]

\* An inner loop that never looks at the requested layers.
FirstProvidingLayer_NoLayers(curext, layers) == 0

\* The inner loop of oriPruneInstanceExtensions: the position (1-based) of the
\* first requested layer that provides curext, 0 when none does.
FirstProvidingLayer(curext, layers) ==
    LET hits == {j \in 1..Len(layers) :
                    oriCheckInstanceExtensionAvailability(curext, layers[j])}
    IN  IF hits = {} THEN 0 ELSE CHOOSE j \in hits : \A h \in hits : j <= h

\* The queries the inner loop makes: every layer up to the first hit.
LayerQueries(curext, layers) ==
    LET f == FirstProvidingLayer(curext, layers)
        last == IF f = 0 THEN Len(layers) ELSE f
    IN  {<<curext, layers[j]>> : j \in 1..last}

\* The outer loop of oriPruneInstanceExtensions from index i (zero-based) on.
\* After a removal the loop still increments i.
RECURSIVE PruneLoop(_, _, _, _, _, _)
PruneLoop(exts, layers, i, r, removed, queried) ==
    IF i >= Len(exts)
    THEN [exts |-> exts, r |-> r, removed |-> removed, queried |-> queried]
    ELSE LET curext == exts[i + 1] IN
         IF oriCheckInstanceExtensionAvailability(curext, NULL)
         THEN PruneLoop(exts, layers, i + 1, r, removed,
                        queried \cup {<<curext, NULL>>})
         ELSE IF FirstProvidingLayer(curext, layers) # 0
         THEN PruneLoop(exts, layers, i + 1, r, removed,
                        queried \cup {<<curext, NULL>>} \cup LayerQueries(curext, layers))
         ELSE PruneLoop(_ori_RemoveFromDArray(exts, i), layers, i + 1, TRUE,
                        Append(removed, curext),
                        queried \cup {<<curext, NULL>>} \cup LayerQueries(curext, layers))

RECURSIVE WarnEach(_, _)
WarnEach(mask, names) ==
    IF names = <<>> THEN <<>>
    ELSE _ori_Warning(mask, Head(names)) \o WarnEach(mask, Tail(names))

oriPruneInstanceExtensions(state, exts, layers, mask) ==
    IF state = NULL
    THEN [exts |-> exts, ret |-> FALSE,
          emitted |-> _ori_ThrowError(mask, ORERR_NULL_POINTER), queried |-> {}]
    ELSE LET p == PruneLoop(exts, layers, 0, FALSE, <<>>, {})
         IN  [exts |-> p.exts, ret |-> p.r,
              emitted |-> WarnEach(mask, p.removed), queried |-> p.queried]


(***************************************************************************)
(* Instance creation (vk_init.c).                                          *)
(***************************************************************************)
\* vkOk: whether vkCreateInstance returns VK_SUCCESS at this call.
oriCreateInstance(state, instanceOut, exts, layers, insts, mask, flag, vkOk) ==
    IF instanceOut = NULL
    THEN [exts |-> exts, instances |-> insts, ret |-> "OK", emitted |-> <<>>,
          queried |-> {}, native |-> NoNative]
    ELSE IF state = NULL
    THEN [exts |-> exts, instances |-> insts, ret |-> "ERROR_NULL_POINTER",
          emitted |-> _ori_ThrowError(mask, ORERR_NULL_POINTER),
          queried |-> {}, native |-> NoNative]
    ELSE
    LET \* the extensions are pruned only when some are requested
        p == IF Len(exts) # 0
             THEN oriPruneInstanceExtensions(state, exts, layers, mask)
             ELSE [exts |-> exts, ret |-> FALSE, emitted |-> <<>>, queried |-> {}]
        debugUtilsExtFound == Len(exts) # 0 /\ flag /\ DEBUG_UTILS \in Range(p.exts)
        \* ppEnabledExtensionNames and enabledExtensionCount
        createExts == IF Len(exts) # 0 THEN p.exts ELSE <<>>
        noMessenger == IF flag /\ ~debugUtilsExtFound
                       THEN _ori_Warning(mask, "") ELSE <<>>
        messenger == IF debugUtilsExtFound
                     THEN _ori_Notification(mask, instanceOut) ELSE <<>>
        before == p.emitted \o noMessenger \o messenger
        native == Native(layers, createExts, debugUtilsExtFound)
    IN  IF ~vkOk
        THEN [exts |-> p.exts, instances |-> insts, ret |-> "ERROR_VULKAN_ERROR",
              emitted |-> before \o _ori_ThrowError(mask, ORERR_VULKAN_RETURN_ERROR),
              queried |-> p.queried, native |-> native]
        ELSE [exts |-> p.exts,
              instances |-> _ori_AppendOntoDArray(insts, instanceOut),
              ret |-> "OK",
              emitted |-> before \o _ori_Notification(mask, instanceOut),
              queried |-> p.queried, native |-> native]

(***************************************************************************)
(* Library configuration (lib/error.c, init.c).                            *)
(***************************************************************************)
\* The severities a caller enables in one call.
SeverityInputs == {{"WARNING", "ERROR"}}

oriEnableLibDebugMessages(mask, severities) == mask \cup severities

CREATE_INSTANCE_DEBUG_MESSENGERS == "ORION_FLAG_CREATE_INSTANCE_DEBUG_MESSENGERS"

FlagInputs == {CREATE_INSTANCE_DEBUG_MESSENGERS, "INVALID_FLAG"}

oriSetFlag(mask, current, flag, val) ==
    IF flag # CREATE_INSTANCE_DEBUG_MESSENGERS
    THEN [flag |-> current, ret |-> "ERROR_INVALID_ENUM",
          emitted |-> _ori_Warning(mask, "")]
    ELSE [flag |-> val, ret |-> "OK",
          emitted |-> IF mask # {}
                      THEN _ori_ThrowError(mask, Msg("VERBOSE", "", "")) ELSE <<>>]

(***************************************************************************)
(* The revision of src/lib/init.c, src/lib/vk_ext.c and src/lib/debug.c:   *)
(* one global library object _orion with a registry of instance wrappers.  *)
(***************************************************************************)
MaxReqLayers == 2
MaxReqExts == 1

\* The instanceCount values a caller passes, and the length of its array.
InstanceCounts == {0, 1, 2}
InstanceArrayLen == 2

BoundedSeq(S, n) == UNION {[1..k -> S] : k \in 0..n}

\* The caller's VkInstance storage handed to oriInit, and the address of a
\* VkInstance the library never saw.
UserInstance == "&instance"
ForeignInstance == "&foreign"

VK_NULL_HANDLE == "VK_NULL_HANDLE"
\* The native handles the driver has, in the order vkCreateInstance hands
\* out free ones.
HandleSeq == <<"h1", "h2">>

\* A NULL array pointer passed with a count of one.
NullArray == <<NULL>>

\* What a caller passes as <<enabledLayers, enabledInstanceExtensions>>: two
\* arrays, or a NULL pointer for one of them.
Requests ==
    (BoundedSeq({"L1", "LX"}, MaxReqLayers)
        \X BoundedSeq({DEBUG_UTILS, "E1"}, MaxReqExts))
    \cup {<<NullArray, <<>>>>, <<<<>>, NullArray>>}

ORIERR_NULL_POINTER == "ERR_NULL_POINTER"
ORIERR_INSTANCE_CREATION_FAIL == "ERR_INSTANCE_CREATION_FAIL"
ORIERR_INVALID_OBJECT == "ERR_INVALID_OBJECT"
ORIFERR_MEMORY_ERROR == "FERR_MEMORY_ERROR"

DBGCB_VERIFY_SEV_Always(mask, sev) == TRUE

\* DBGCB_VERIFY_SEV: the message is dropped unless its severity is enabled.
DBGCB_VERIFY_SEV(mask, sev) == sev \in mask

_oriLog(mask, about) ==
    IF DBGCB_VERIFY_SEV(mask, "VERBOSE") THEN <<Msg("VERBOSE", "", about)>> ELSE <<>>

_oriNotification(mask, about) ==
    IF DBGCB_VERIFY_SEV(mask, "NOTIF") THEN <<Msg("NOTIF", "", about)>> ELSE <<>>

_oriWarning(mask, about) ==
    IF DBGCB_VERIFY_SEV(mask, "WARNING") THEN <<Msg("WARNING", "", about)>> ELSE <<>>

\* Errors and fatal errors are delivered whatever the mask.
_oriError(id, extra) == <<Msg("ERROR", id, extra)>>

_oriFatalError(id, extra) == <<Msg("FATAL", id, extra)>>

\* A string read through an uninitialised pointer matches no name (when the
\* read does not fault).
lib_oriCheckLayerAvailability(layer) ==
    layer # Garbage /\ layer \in vkEnumerateInstanceLayerProperties

lib_oriCheckInstanceExtensionAvailability(extension, layer) ==
    layer # Garbage /\ extension \in vkEnumerateInstanceExtensionProperties(layer)

\* A lookup that does not compare keys.
HASH_FIND_PTR_AnyKey(table, key) == table

\* uthash: the wrappers stored under the key; the empty set is the NULL a
\* failed lookup leaves in its output.
HASH_FIND_PTR(table, key) == {w \in table : w.handle = key}

\* The layer loop of oriInit.  actualEnabledLayers is an uninitialised stack
\* array; slot i is written only when enabledLayers[i] is available, while
\* actualEnabledLayerCount counts the available ones.
ActualEnabledLayers(layerNames) ==
    [i \in 1..Len(layerNames) |->
        IF lib_oriCheckLayerAvailability(layerNames[i])
        THEN layerNames[i] ELSE Garbage]

ActualEnabledLayerCount(layerNames) ==
    Cardinality({i \in 1..Len(layerNames) :
                    lib_oriCheckLayerAvailability(layerNames[i])})

\* The extension loop: provided by the implementation, or by one of the first
\* layerCount slots of actualEnabledLayers.
ExtensionProvided(extension, actualLayers, layerCount) ==
    \/ lib_oriCheckInstanceExtensionAvailability(extension, NULL)
    \/ \E j \in 1..layerCount :
           lib_oriCheckInstanceExtensionAvailability(extension, actualLayers[j])

ActualEnabledExts(extNames, actualLayers, layerCount) ==
    [i \in 1..Len(extNames) |->
        IF ExtensionProvided(extNames[i], actualLayers, layerCount)
        THEN extNames[i] ELSE Garbage]

ActualEnabledExtCount(extNames, actualLayers, layerCount) ==
    Cardinality({i \in 1..Len(extNames) :
                    ExtensionProvided(extNames[i], actualLayers, layerCount)})

\* The first count slots of an array: what vkCreateInstance and the wrapper
\* are given.
FirstSlots(array, count) == SubSeq(array, 1, count)

\* The messages of the layer loop: a log from the failed availability check
\* and a warning, per unavailable layer.
RECURSIVE LayerMessages(_, _)
LayerMessages(mask, layerNames) ==
    IF layerNames = <<>> THEN <<>>
    ELSE (IF lib_oriCheckLayerAvailability(Head(layerNames)) THEN <<>>
          ELSE _oriLog(mask, Head(layerNames))
               \o _oriWarning(mask, Head(layerNames)))
         \o LayerMessages(mask, Tail(layerNames))

\* The messages of the extension loop: a warning per extension not provided
\* (the logs of the failed checks are left out).
RECURSIVE ExtensionMessages(_, _, _, _)
ExtensionMessages(mask, extNames, actualLayers, layerCount) ==
    IF extNames = <<>> THEN <<>>
    ELSE (IF ExtensionProvided(Head(extNames), actualLayers, layerCount)
          THEN <<>> ELSE _oriWarning(mask, Head(extNames)))
         \o ExtensionMessages(mask, Tail(extNames), actualLayers, layerCount)

\* The handles vkCreateInstance has free, in the order it hands them out.
FreeHandles(pool, live) == SelectSeq(pool, LAMBDA h : h \notin live)

LibNative(layers, exts) == [layers |-> layers, exts |-> exts]

Wrapper(handle, layers, extensions) ==
    [handle |-> handle, layers |-> layers, extensions |-> extensions]

\* HASH_ADD_PTR does not look for the key: every wrapper is an allocation of
\* its own (node), so a table can hold several wrappers of one key.
HASH_ADD_PTR(table, wrapper) ==
    table \cup {[node |-> Cardinality(table) + 1, handle |-> wrapper.handle,
                 layers |-> wrapper.layers, extensions |-> wrapper.extensions]}

(***************************************************************************)
(* State of the library revision.                                          *)
(*   initialised, debugMessageSeverities    _orion                         *)
(*   vkInstances      _orion.allocatees.vkInstances, a set of wrappers     *)
(*   instanceMemory   the caller's VkInstance array at UserInstance        *)
(*   liveInstances    the native instances created and not destroyed       *)
(*   strayDestroy     vkDestroyInstance was given a handle that is not live*)
(*   halted           the process exited or faulted                        *)
(*   session          the instanceOut of the last successful oriInit while *)
(*                    no oriTerminate followed it, else NULL               *)
(*   libCall          the last API call and what it returned, delivered,   *)
(*                    handed to vkCreateInstance and wrote to its outputs  *)
(*                    (for oriTerminate, arg is the configuration it found)*)
(*   reqLayers, reqExts   the arrays this program passes to oriInit        *)
(***************************************************************************)
VARIABLES initialised, debugMessageSeverities, vkInstances, instanceMemory,
          liveInstances, strayDestroy, halted, session, libCall,
          reqLayers, reqExts

libVars == <<initialised, debugMessageSeverities, vkInstances, instanceMemory,
             session, libCall, reqLayers, reqExts>>

\* The native side, common to the revisions that destroy what they create.
nativeVars == <<liveInstances, strayDestroy, halted>>

NoOut == [countWritten |-> FALSE, count |-> 0, namesWritten |-> FALSE, names |-> <<>>]

LibCall(op, arg, ret, emitted, native, out) ==
    [op |-> op, arg |-> arg, ret |-> ret, emitted |-> emitted,
     native |-> native, out |-> out]

\* An oriInit that does not test _orion.initialised.
AlreadyInitialised_Never(isInit) == FALSE

\* The first test of oriInit: if (_orion.initialised).
AlreadyInitialised(isInit) == isInit

\* failAt: which vkCreateInstance call fails (0: none).  mallocOk: whether
\* the allocations of the wrapper succeed.  ub: what reading a string
\* through an uninitialised slot does here, "fault" or "continue".
lib_oriInit(isInit, table, mask, memory, live, instanceCount, instanceOut, layerNames, extNames, failAt, mallocOk, ub) ==
    LET Refused(ret, emitted) ==
            [initialised |-> isInit, table |-> table, memory |-> memory,
             live |-> live, ret |-> ret, emitted |-> emitted, native |-> <<>>,
             halted |-> FALSE]
    IN
    IF AlreadyInitialised(isInit) THEN Refused("SKIPPED", <<>>)
    ELSE IF instanceOut = NULL \/ instanceCount = 0
    THEN Refused("NO_OUTPUT", _oriWarning(mask, "oriInit"))
    ELSE IF layerNames = NullArray \/ extNames = NullArray
    THEN Refused("NULL_POINTER", _oriError(ORIERR_NULL_POINTER, "oriInit"))
    \* the key looked up is read at instanceOut, not instanceOut itself
    ELSE IF HASH_FIND_PTR(table, memory[1]) # {}
    THEN Refused("SKIPPED", _oriWarning(mask, instanceOut))
    ELSE
    LET actualLayers == ActualEnabledLayers(layerNames)
        layerCount == ActualEnabledLayerCount(layerNames)
        actualExts == ActualEnabledExts(extNames, actualLayers, layerCount)
        extCount == ActualEnabledExtCount(extNames, actualLayers, layerCount)
        layers == FirstSlots(actualLayers, layerCount)
        exts == FirstSlots(actualExts, extCount)
        messages == LayerMessages(mask, layerNames)
                    \o ExtensionMessages(mask, extNames, actualLayers, layerCount)
        calls == IF failAt = 0 THEN instanceCount ELSE failAt
        created == IF failAt = 0 THEN instanceCount ELSE failAt - 1
        free == FreeHandles(HandleSeq, live)
        written == [i \in 1..Len(memory) |->
                       IF i <= created THEN free[i] ELSE memory[i]]
        made == live \cup {free[i] : i \in 1..created}
        native == [i \in 1..calls |-> LibNative(layers, exts)]
    IN  IF Garbage \in Range(layers) \cup Range(exts) /\ ub = "fault"
        THEN [initialised |-> FALSE, table |-> table, memory |-> memory,
              live |-> live, ret |-> "FAULT", emitted |-> messages,
              native |-> <<>>, halted |-> TRUE]
        ELSE IF failAt # 0
        THEN [initialised |-> FALSE, table |-> table, memory |-> written,
              live |-> made, ret |-> "ERROR",
              emitted |-> messages
                          \o _oriError(ORIERR_INSTANCE_CREATION_FAIL, "oriInit"),
              native |-> native, halted |-> FALSE]
        ELSE IF ~mallocOk
        THEN [initialised |-> FALSE, table |-> table, memory |-> written,
              live |-> made, ret |-> "EXIT",
              emitted |-> messages \o _oriFatalError(ORIFERR_MEMORY_ERROR, "oriInit"),
              native |-> native, halted |-> TRUE]
        ELSE [initialised |-> TRUE,
              table |-> HASH_ADD_PTR(table, Wrapper(instanceOut, layers, exts)),
              memory |-> written, live |-> made, ret |-> "OK",
              emitted |-> messages \o _oriNotification(mask, instanceOut),
              native |-> native, halted |-> FALSE]

_oriDefaultDebugCallback == "_oriDefaultDebugCallback"

\* _orion.callbacks.
Callbacks(fun, pointer, allocators) ==
    [debug |-> [fun |-> fun, pointer |-> pointer], vulkanAllocators |-> allocators]

\* _orion as it is defined: everything zero but the debug callback.
CallbacksZero == Callbacks(_oriDefaultDebugCallback, NULL, NULL)

\* A termination that leaves the library marked initialised.
lib_oriTerminate_StaysInitialised(table, mask, memory, live, cb) ==
    [initialised |-> TRUE, table |-> {}, devices |-> {}, mask |-> {},
     callbacks |-> CallbacksZero, live |-> live \ {memory[1]}, stray |-> FALSE,
     ret |-> "OK", emitted |-> _oriNotification(mask, "oriTerminate")]

\* A termination that zeroes the registries and the mask but not the callbacks.
lib_oriTerminate_KeepsCallbacks(table, mask, memory, live, cb) ==
    [initialised |-> FALSE, table |-> {}, devices |-> {}, mask |-> {},
     callbacks |-> cb, live |-> live \ {memory[1]}, stray |-> FALSE,
     ret |-> "OK", emitted |-> _oriNotification(mask, "oriTerminate")]

\* Every wrapper's instance is destroyed through its handle pointer, then
\* An oriTerminate that destroys the instance and leaves its wrapper in the
\* table.
lib_oriTerminate_KeepsTable(table, mask, memory, live, cb) ==
    LET h == memory[1]
        n == Cardinality(table)
    IN  [initialised |-> FALSE, table |-> table, devices |-> {}, mask |-> {},
         callbacks |-> CallbacksZero,
         live |-> IF n >= 1 THEN live \ {h} ELSE live,
         stray |-> \/ n >= 1 /\ h # VK_NULL_HANDLE /\ h \notin live
                   \/ n >= 2 /\ h # VK_NULL_HANDLE,
         ret |-> "OK", emitted |-> _oriNotification(mask, "oriTerminate")]

\* _orion is zeroed and the default debug callback put back.  All wrappers
\* point at the caller's array, whose first element is the handle read.  The
\* device table is zeroed with the rest; nothing iterates over it.
lib_oriTerminate(table, mask, memory, live, cb) ==
    LET h == memory[1]
        n == Cardinality(table)
    IN  [initialised |-> FALSE, table |-> {}, devices |-> {}, mask |-> {},
         callbacks |-> CallbacksZero,
         live |-> IF n >= 1 THEN live \ {h} ELSE live,
         stray |-> \/ n >= 1 /\ h # VK_NULL_HANDLE /\ h \notin live
                   \/ n >= 2 /\ h # VK_NULL_HANDLE,
         ret |-> "OK", emitted |-> _oriNotification(mask, "oriTerminate")]

\* which: the wrapper's field, "layers" or "extensions".
EnumerateEnabled(which, fname, table, mask, instance, countOut, namesOut) ==
    IF instance = NULL
    THEN [ret |-> "NULL_POINTER", emitted |-> _oriError(ORIERR_NULL_POINTER, fname),
          out |-> NoOut]
    ELSE IF countOut = NULL /\ namesOut = NULL
    THEN [ret |-> "NO_OUTPUT", emitted |-> _oriWarning(mask, fname), out |-> NoOut]
    ELSE LET found == HASH_FIND_PTR(table, instance) IN
         IF found = {}
         THEN [ret |-> "ERROR", emitted |-> _oriError(ORIERR_INVALID_OBJECT, fname),
               out |-> NoOut]
         ELSE LET instanceWrapper == CHOOSE w \in found : TRUE
                  list == instanceWrapper[which]
              IN  [ret |-> "OK", emitted |-> <<>>,
                   out |-> [countWritten |-> countOut # NULL,
                            count |-> IF countOut # NULL THEN Len(list) ELSE 0,
                            namesWritten |-> namesOut # NULL,
                            names |-> IF namesOut # NULL THEN list ELSE <<>>]]

oriEnumerateEnabledLayers(table, mask, instance, layerCountOut, layerNamesOut) ==
    EnumerateEnabled("layers", "oriEnumerateEnabledLayers", table, mask,
                     instance, layerCountOut, layerNamesOut)

oriEnumerateEnabledInstanceExtensions(table, mask, instance, extCountOut, extNamesOut) ==
    EnumerateEnabled("extensions", "oriEnumerateEnabledInstanceExtensions", table,
                     mask, instance, extCountOut, extNamesOut)

\* The severities a caller configures in one call.
ConfiguredSeverities == {{"WARNING"}}

oriConfigureDebugMessages_Merges(mask, severities) ==
    [mask |-> mask \cup severities, ret |-> "OK", emitted |-> _oriLog(mask, "")]

oriConfigureDebugMessages(mask, severities) ==
    [mask |-> severities, ret |-> "OK", emitted |-> _oriLog(mask, "")]

\* The state _orion is built with.
LibZero ==
    /\ initialised = FALSE
    /\ debugMessageSeverities = {}
    /\ vkInstances = {}
    /\ instanceMemory = [i \in 1..InstanceArrayLen |-> VK_NULL_HANDLE]
    /\ session = NULL
    /\ libCall = LibCall("", <<>>, "OK", <<>>, <<>>, NoOut)

\* A program that never calls oriInit passes it nothing.
NoRequest ==
    /\ reqLayers = <<>>
    /\ reqExts = <<>>

(***************************************************************************)
(* Callbacks, allocators and logical devices of the library revision       *)
(* (lib/debug.c, lib/init.c, lib/vk_device.c).                             *)
(*   callbacks      _orion.callbacks: debug.fun, debug.pointer and         *)
(*                  vulkanAllocators                                       *)
(*   vkDevices      _orion.allocatees.vkDevices, a set of wrappers         *)
(*   deviceMemory   the caller's VkDevice variables, by address            *)
(*   liveDevices    the native devices created and not destroyed           *)
(*   owed           the native objects the successful creation calls made  *)
(*                  since the last successful oriInit and no oriTerminate  *)
(*                  destroyed                                              *)
(*   allocated      the deviceOut addresses oriCreateLogicalDevice         *)
(*                  returned OK for since the last oriTerminate            *)
(*   userCallback   the callback the program gave to its last              *)
(*                  oriSetDebugCallback since the last oriTerminate, NULL  *)
(*                  if it gave none                                        *)
(***************************************************************************)
VARIABLES callbacks, vkDevices, deviceMemory, liveDevices, owed, allocated,
          userCallback

lifeVars == <<callbacks, vkDevices, deviceMemory, liveDevices, owed, allocated,
              userCallback>>

MaxDevices == 2

\* The caller's VkDevice variable, by address.
DevicePtrs == {"&deviceA"}

\* The native device handles of the driver: vkCreateDevice hands out the
\* least one that is not live.
DeviceHandles == 1..MaxDevices

PhysicalDevice == "GPU"

\* vkEnumerateDeviceExtensionProperties(physicalDevice, pLayerName).
vkEnumerateDeviceExtensionProperties(pLayerName) ==
    CASE pLayerName = NULL -> {"VK_KHR_swapchain"}
      [] pLayerName = "L1" -> {"DL1"}
      [] OTHER -> {}

\* What a caller passes as extensionNames: an array, or NULL with a count
\* of one.
DeviceExtensionRequests ==
    {<<>>, <<"DL1">>, <<"DX", "VK_KHR_swapchain">>, NullArray}

ORIERR_DEVICE_CREATION_FAIL == "ERR_DEVICE_CREATION_FAIL"

\* What a program passes to oriSetDebugCallback and oriSetVulkanAllocators.
DebugCallbackInputs == {<<"cbA", "ctxA">>, <<NULL, "ctxB">>}
AllocatorInputs == {NULL, "allocators"}

\* A setter that stores the callback it is given, NULL included.
oriSetDebugCallback_StoresNull(cb, mask, callback, pointer) ==
    [callbacks |-> [cb EXCEPT !.debug.fun = callback, !.debug.pointer = pointer],
     ret |-> "OK", emitted |-> _oriLog(mask, "oriSetDebugCallback")]

oriSetDebugCallback(cb, mask, callback, pointer) ==
    [callbacks |-> [cb EXCEPT !.debug.fun = IF callback # NULL THEN callback
                                            ELSE _oriDefaultDebugCallback,
                              !.debug.pointer = pointer],
     ret |-> "OK", emitted |-> _oriLog(mask, "oriSetDebugCallback")]

oriGetDebugCallback(cb) == cb.debug.fun

oriGetDebugCallbackUserData(cb) == cb.debug.pointer

oriSetVulkanAllocators(cb, mask, allocators) ==
    [callbacks |-> [cb EXCEPT !.vulkanAllocators = allocators],
     ret |-> "OK", emitted |-> _oriLog(mask, "oriSetVulkanAllocators")]

lib_oriCheckDeviceExtensionAvailability(extension, layer) ==
    /\ extension # Garbage
    /\ layer # Garbage
    /\ extension \in vkEnumerateDeviceExtensionProperties(layer)

\* The slots of an instance's layer array at which the inner loop of
\* oriCreateLogicalDevice finds an extension: it tests extensionNames[j]
\* against layers[j].
LayerHits(extNames, layers) ==
    {j \in 1..Len(layers) :
        /\ j <= Len(extNames)
        /\ lib_oriCheckDeviceExtensionAvailability(extNames[j], layers[j])}

Least(S) == CHOOSE j \in S : \A k \in S : j <= k

\* Whether the inner loop reads extensionNames past its end before it finds
\* an extension.
ReadsPastEnd(extNames, layers) ==
    /\ Len(layers) > Len(extNames)
    /\ LayerHits(extNames, layers) = {}

\* The extension loop of oriCreateLogicalDevice from index i on.  actual is
\* actualEnabledExts, an uninitialised stack array; count is
\* actualEnabledExtCount.  After a hit of the inner loop cur is set to NULL
\* and the outer loop then reads cur->hh.next; a read past the end of
\* extensionNames yields a string that matches no name.  ub is what these
\* reads do here: "fault" or "continue".
RECURSIVE DeviceExtensionLoop(_, _, _, _, _, _, _)
DeviceExtensionLoop(i, extNames, actual, count, table, mask, ub) ==
    IF i > Len(extNames)
    THEN [actual |-> actual, count |-> count, emitted |-> <<>>, fault |-> FALSE]
    ELSE IF lib_oriCheckDeviceExtensionAvailability(extNames[i], NULL)
    THEN DeviceExtensionLoop(i + 1, extNames, [actual EXCEPT ![i] = extNames[i]],
                             count + 1, table, mask, ub)
    ELSE LET hit == {w \in table : LayerHits(extNames, w.layers) # {}}
             past == {w \in table : ReadsPastEnd(extNames, w.layers)}
         IN  IF (hit # {} \/ past # {}) /\ ub = "fault"
             THEN [actual |-> actual, count |-> count, emitted |-> <<>>,
                   fault |-> TRUE]
             ELSE IF hit # {}
             THEN LET w == CHOOSE w \in hit : TRUE
                      j == Least(LayerHits(extNames, w.layers))
                  IN  DeviceExtensionLoop(i + 1, extNames,
                                          [actual EXCEPT ![j] = extNames[j]],
                                          count + 1, table, mask, ub)
             ELSE LET rest == DeviceExtensionLoop(i + 1, extNames, actual, count,
                                                  table, mask, ub)
                  IN  [rest EXCEPT !.emitted = _oriWarning(mask, extNames[i]) \o @]

\* Whether this call of oriCreateLogicalDevice reaches a read whose
\* behaviour is undefined.
DeviceLoopUndefined(extNames, table) ==
    /\ extNames # NullArray
    /\ \E i \in 1..Len(extNames) :
           /\ ~lib_oriCheckDeviceExtensionAvailability(extNames[i], NULL)
           /\ \E w \in table : \/ LayerHits(extNames, w.layers) # {}
                               \/ ReadsPastEnd(extNames, w.layers)

\* queuesNull: queueCreateInfos is NULL while queueCreateInfoCount is not 0.
\* vkOk: whether vkCreateDevice succeeds.  No wrapper is added to vkDevices:
\* the function has no HASH_ADD.
oriCreateLogicalDevice(devices, table, mask, memory, live, deviceOut, physicalDevice, queuesNull, extNames, vkOk, ub) ==
    LET Refused(ret, emitted) ==
            [memory |-> memory, live |-> live, ret |-> ret, emitted |-> emitted,
             native |-> <<>>, halted |-> FALSE]
    IN
    IF deviceOut = NULL
    THEN Refused("NO_OUTPUT", _oriWarning(mask, "oriCreateLogicalDevice"))
    ELSE IF physicalDevice = NULL \/ queuesNull \/ extNames = NullArray
    THEN Refused("NULL_POINTER", _oriError(ORIERR_NULL_POINTER, "oriCreateLogicalDevice"))
    ELSE IF HASH_FIND_PTR(devices, deviceOut) # {}
    THEN Refused("SKIPPED", _oriWarning(mask, deviceOut))
    ELSE
    LET loop == DeviceExtensionLoop(1, extNames,
                                    [i \in 1..Len(extNames) |-> Garbage], 0,
                                    table, mask, ub)
        exts == FirstSlots(loop.actual, loop.count)
        handle == Least(DeviceHandles \ live)
    IN  IF loop.fault \/ (Garbage \in Range(exts) /\ ub = "fault")
        THEN [memory |-> memory, live |-> live, ret |-> "FAULT",
              emitted |-> loop.emitted, native |-> <<>>, halted |-> TRUE]
        ELSE IF ~vkOk
        THEN [memory |-> memory, live |-> live, ret |-> "ERROR",
              emitted |-> loop.emitted
                          \o _oriError(ORIERR_DEVICE_CREATION_FAIL,
                                       "oriCreateLogicalDevice"),
              native |-> <<exts>>, halted |-> FALSE]
        ELSE [memory |-> [memory EXCEPT ![deviceOut] = handle],
              live |-> live \cup {handle}, ret |-> "OK",
              emitted |-> loop.emitted, native |-> <<exts>>, halted |-> FALSE]

NoObjects == [instances |-> {}, devices |-> {}]

LifeZero ==
    /\ callbacks = CallbacksZero
    /\ vkDevices = {}
    /\ deviceMemory = [p \in DevicePtrs |-> 0]
    /\ liveDevices = {}
    /\ owed = NoObjects
    /\ allocated = {}
    /\ userCallback = NULL

(***************************************************************************)
(* Debugging (vulkan/vk_debug.c, lib/error.c, error.c).                    *)
(*   errorCallback          _orion.callbacks.errorCallback.  The field     *)
(*                          keeps NULL until a setter call: every reader   *)
(*                          replaces NULL by the default callback before   *)
(*                          it calls, and nothing reads the field          *)
(*                          otherwise (ResolvedCallback).                  *)
(*   errorCallbackUserData  _orion.callbacks.errorCallbackUserData         *)
(*   debugMessengers        state->arrays.debugMessengers                  *)
(*   nativeMessengers       the messengers the driver holds, each with     *)
(*                          the instance and the pUserData it was created  *)
(*                          with                                           *)
(*   teardown               the last teardown: the driver's messengers     *)
(*                          before it and the destroy calls it made        *)
(*   relayed                the last call of the error callback made for   *)
(*                          a message of a native messenger                *)
(***************************************************************************)
MaxMessengers == 2

\* The caller's VkDebugUtilsMessengerEXT variables, by address.
MessengerPtrs == {"M1", "M2", "M3"}

\* What a program passes to oriSetErrorCallback: a callback with its data.
ErrorCallbackInputs == {<<"cbA", "ctxA">>, <<"cbB", "ctxB">>}

_ori_DefaultErrorCallback == "_ori_DefaultErrorCallback"

ORERR_EXT_NOT_ENABLED == Msg("ERROR", "ERR_EXT_NOT_ENABLED", "")

VARIABLES errorCallback, errorCallbackUserData, debugMessengers,
          nativeMessengers, teardown, relayed

dbgVars == <<errorCallback, errorCallbackUserData, debugMessengers,
             nativeMessengers, teardown, relayed>>

ResolvedCallback(callback) ==
    IF callback = NULL THEN _ori_DefaultErrorCallback ELSE callback

oriSetErrorCallback(callback, pointer) ==
    [errorCallback |-> callback, errorCallbackUserData |-> pointer]

\* Both branches end in the same call of the error callback, with the
\* userdata the driver hands over.
_ori_VulkanDebugMessengerCallback(callback, userdata) ==
    [callback |-> ResolvedCallback(callback), pointer |-> userdata]

oriCheckInstanceExtensionEnabled(state, exts, mask, extension) ==
    IF state = NULL
    THEN [ret |-> FALSE, emitted |-> _ori_ThrowError(mask, ORERR_NULL_POINTER)]
    ELSE [ret |-> extension \in Range(exts), emitted |-> <<>>]

NoMessenger == {}

\* The entry of state->arrays.debugMessengers made for a messenger.
messengerStruct_NoInstance(debugMessengerPtr, instance) ==
    [messenger |-> debugMessengerPtr, instance |-> NULL]

messengerStruct(debugMessengerPtr, instance) ==
    [messenger |-> debugMessengerPtr, instance |-> instance]

\* vkOk: whether vkCreateDebugUtilsMessengerEXT returns VK_SUCCESS.
oriCreateDebugMessenger(state, instance, debugMessengerPtr, exts, registry, mask, userData, vkOk) ==
    IF NULL \in {state, instance, debugMessengerPtr}
    THEN [registry |-> registry, ret |-> "ERROR_NULL_POINTER",
          emitted |-> _ori_ThrowError(mask, ORERR_NULL_POINTER),
          created |-> NoMessenger]
    ELSE
    LET enabled == oriCheckInstanceExtensionEnabled(state, exts, mask, DEBUG_UTILS)
    IN  IF ~enabled.ret
        THEN [registry |-> registry, ret |-> "EXT_NOT_ENABLED",
              emitted |-> enabled.emitted
                          \o _ori_ThrowError(mask, ORERR_EXT_NOT_ENABLED),
              created |-> NoMessenger]
        ELSE IF ~vkOk
        THEN [registry |-> registry, ret |-> "ERROR_VULKAN_ERROR",
              emitted |-> _ori_ThrowError(mask, ORERR_VULKAN_RETURN_ERROR),
              created |-> NoMessenger]
        ELSE [registry |-> _ori_AppendOntoDArray(
                               registry,
                               messengerStruct(debugMessengerPtr, instance)),
              ret |-> "OK",
              emitted |-> _ori_Notification(mask, debugMessengerPtr),
              created |-> {[handle |-> debugMessengerPtr, instance |-> instance,
                            pUserData |-> userData]}]

Destroyed(kind, handle) == [kind |-> kind, handle |-> handle]

\* The teardown of a state object: the messengers recorded with an instance
\* first, then the instances.
destroyAll(registry, insts) ==
    LET dependents == SelectSeq(registry, LAMBDA d : d.instance # NULL)
    IN  [k \in 1..Len(dependents) |->
            Destroyed("messenger", dependents[k].messenger)]
        \o [k \in 1..Len(insts) |-> Destroyed("instance", insts[k])]

NoTeardown == [dependents |-> {}, log |-> <<>>]

NotRelayed == [invoked |-> FALSE, callback |-> NULL, pointer |-> NULL,
               installed |-> NULL]

DbgZero ==
    /\ errorCallback = NULL
    /\ errorCallbackUserData = NULL
    /\ debugMessengers = <<>>
    /\ nativeMessengers = {}
    /\ teardown = NoTeardown
    /\ relayed = NotRelayed

(***************************************************************************)
(* One emission of a diagnostic, by either revision's emitters             *)
(* (headers/orion_helpers.h and lib/error.c; lib/debug.c).                 *)
(*   emission   the last emission: the emitter, the severity, the mask it  *)
(*              met, whether the message text was formatted (snprintf or   *)
(*              vsnprintf) and whether the callback was invoked            *)
(***************************************************************************)
VARIABLES emission

emitVars == <<emission>>

Emission(via, sev, mask, formatted, invoked) ==
    [via |-> via, severity |-> sev, mask |-> mask, formatted |-> formatted,
     invoked |-> invoked]

NoEmission == Emission("", "VERBOSE", {}, FALSE, FALSE)

EmitZero == emission = NoEmission

_ori_DebugLog(mask, about) ==
    IF mask # {} THEN _ori_ThrowError(mask, Msg("VERBOSE", "", about)) ELSE <<>>

\* The helpers format the text when any severity at all is displayed.
HelperFormats_Always(mask) == TRUE

HelperFormats(mask) == mask # {}

\* DBGCB_CALL_NOTERR formats the text; it follows DBGCB_VERIFY_SEV.
DBGCB_CALL_NOTERR(mask, sev) == DBGCB_VERIFY_SEV(mask, sev)

\* DBGCB_CALL_ERR formats the text; no test precedes it.
DBGCB_CALL_ERR == TRUE

\* The emitters of each revision: what they deliver and whether they format.
EmittersOfHelpers(mask) ==
    {Emission("_ori_ThrowError", sev, mask, FALSE,
              _ori_ThrowError(mask, Msg(sev, "", "")) # <<>>) : sev \in Severities}
    \cup {Emission("_ori_DebugLog", "VERBOSE", mask, HelperFormats(mask),
                   _ori_DebugLog(mask, "") # <<>>),
          Emission("_ori_Notification", "NOTIF", mask, HelperFormats(mask),
                   _ori_Notification(mask, "") # <<>>),
          Emission("_ori_Warning", "WARNING", mask, HelperFormats(mask),
                   _ori_Warning(mask, "") # <<>>)}

EmittersOfDebug(mask) ==
    {Emission("_oriLog", "VERBOSE", mask,
              DBGCB_CALL_NOTERR(mask, "VERBOSE"), _oriLog(mask, "") # <<>>),
     Emission("_oriNotification", "NOTIF", mask,
              DBGCB_CALL_NOTERR(mask, "NOTIF"), _oriNotification(mask, "") # <<>>),
     Emission("_oriWarning", "WARNING", mask,
              DBGCB_CALL_NOTERR(mask, "WARNING"), _oriWarning(mask, "") # <<>>),
     Emission("_oriError", "ERROR", mask, DBGCB_CALL_ERR,
              _oriError(ORIERR_NULL_POINTER, "") # <<>>),
     Emission("_oriFatalError", "FATAL", mask, DBGCB_CALL_ERR,
              _oriFatalError(ORIFERR_MEMORY_ERROR, "") # <<>>)}

(***************************************************************************)
(* The revision of src/init.c and src/lib/extension.c: the state object    *)
(* (the fields above) is created by oriCreateState, filled by              *)
(* oriCreateStateInstance and torn down by oriFreeState.                   *)
(*   stateAlloc   "none", "live" or "freed": the state object's memory     *)
(*   handleAt     the caller's VkInstance variables, by address            *)
(***************************************************************************)
MaxStateInstances == 3
MaxStateExt == 2

\* The width kept of an unsigned int (the code's is wider; the wrap of
\* 0 - 1 to the largest value is the same).
UIntBits == 16

StateInstancePtrs == {"&i1", "&i2"}

\* The native handles the driver has for this revision's runs.
StateHandleSeq == <<"h1", "h2", "h3">>

VARIABLES stateAlloc, handleAt

stateVars == <<stateAlloc, handleAt>>

vars == <<vkVars, libVars, lifeVars, nativeVars, stateVars, dbgVars, emitVars>>

NativeZero ==
    /\ liveInstances = {}
    /\ strayDestroy = FALSE
    /\ halted = FALSE

StateZero ==
    /\ stateAlloc = "none"
    /\ handleAt = [p \in StateInstancePtrs |-> VK_NULL_HANDLE]

\* __RemoveArrayDuplicates from index i on: array is the allocated block
\* (<<>> for a NULL pointer), count the unsigned element count.  count - 1
\* is computed in unsigned arithmetic; i-- followed by the loop's i++ leaves
\* i where it was.
RECURSIVE RemoveArrayDuplicatesFrom(_, _, _)
RemoveArrayDuplicatesFrom(array, count, i) ==
    IF ~(i < (count - 1) % (2 ^ UIntBits))
    THEN [array |-> array, count |-> count, fault |-> FALSE]
    ELSE IF i + 2 > Len(array)
    THEN [array |-> array, count |-> count, fault |-> TRUE]
    ELSE IF array[i + 1] # array[i + 2]
    THEN RemoveArrayDuplicatesFrom(array, count, i + 1)
    ELSE RemoveArrayDuplicatesFrom(
             [j \in 1..Len(array) |->
                 IF j >= i + 2 /\ j <= count - 1 THEN array[j + 1] ELSE array[j]],
             count - 1, i)

__RemoveArrayDuplicates(array, count) == RemoveArrayDuplicatesFrom(array, count, 0)

\* The destroy loop of oriFreeState: vkDestroyInstance on what each pointer
\* holds, then the pointee is set to NULL.  vkDestroyInstance ignores
\* VK_NULL_HANDLE.
RECURSIVE DestroyEach(_, _, _, _)
DestroyEach(ptrs, memory, live, stray) ==
    IF ptrs = <<>> THEN [memory |-> memory, live |-> live, stray |-> stray]
    ELSE LET h == memory[Head(ptrs)] IN
         DestroyEach(Tail(ptrs),
                     [memory EXCEPT ![Head(ptrs)] = VK_NULL_HANDLE],
                     live \ {h},
                     stray \/ (h # VK_NULL_HANDLE /\ h \notin live))

oriCreateState ==
    [alloc |-> "live", layers |-> <<>>, exts |-> <<>>, instances |-> <<>>,
     emitted |-> <<>>]

\* A freed state is read after free: its array pointer was set to NULL
\* before the free, so whatever the count reads, the array read faults.
oriFreeState(alloc, insts, memory, live, stray) ==
    LET d == __RemoveArrayDuplicates(insts, Len(insts))
        kept == FirstSlots(d.array, d.count)
        f == DestroyEach(kept, memory, live, stray)
    IN  IF alloc = "freed" \/ d.fault
        THEN [alloc |-> alloc, instances |-> insts, memory |-> memory,
              live |-> live, stray |-> stray, fault |-> TRUE]
        ELSE [alloc |-> "freed", instances |-> <<>>, memory |-> f.memory,
              live |-> f.live, stray |-> f.stray, fault |-> FALSE]

ORERR_MEMORY_ERROR == Msg("ERROR", "ERR_MEMORY_ERROR", "")

\* What the allocations of one append do: both succeed, the realloc of the
\* array fails, or the malloc of the string copy fails.
Allocations == {"ok", "realloc", "malloc"}

\* A list after array = realloc(array, ...) returned NULL: the count was
\* incremented before the call and the pointer to the old block is
\* overwritten, so it has count slots and no entry to read.
LostArray(count) == [k \in 1..count |-> NULL]

\* A list with a slot that cannot be read: a lost array, or the slots of the
\* block a later realloc(NULL, ...) returned.
Unreadable(list) == NULL \in Range(list)

\* The append of oriFlagLayerEnabled and oriFlagInstanceExtensionEnabled.
\* The result of the string's malloc is written through unchecked.
GrowList(list, mask, name, alloc) ==
    IF alloc = "realloc"
    THEN [list |-> LostArray(Len(list) + 1), ret |-> "MEMORY_ERROR",
          emitted |-> _ori_ThrowError(mask, ORERR_MEMORY_ERROR), fault |-> FALSE]
    ELSE IF alloc = "malloc"
    THEN [list |-> Append(list, NULL), ret |-> "FAULT", emitted |-> <<>>,
          fault |-> TRUE]
    ELSE [list |-> Append(list, name), ret |-> "OK", emitted |-> <<>>,
          fault |-> FALSE]

ext_oriFlagLayerEnabled(layers, mask, layer, alloc) ==
    IF ~oriCheckLayerAvailability(layer)
    THEN [layers |-> layers, ret |-> "ERROR_NOT_FOUND",
          emitted |-> _ori_Warning(mask, layer), queried |-> {<<layer, NULL>>},
          fault |-> FALSE]
    ELSE LET g == GrowList(layers, mask, layer, alloc)
         IN  [layers |-> g.list, ret |-> g.ret, emitted |-> g.emitted,
              queried |-> {<<layer, NULL>>}, fault |-> g.fault]

ext_oriFlagInstanceExtensionEnabled(exts, mask, extension, alloc) ==
    LET g == GrowList(exts, mask, extension, alloc)
    IN  [exts |-> g.list, ret |-> g.ret, emitted |-> g.emitted, queried |-> {},
         fault |-> g.fault]

\* The extension loop of oriCreateStateInstance: an unresolved entry is set
\* to NULL where it stands and only the count handed on is decreased.
Unresolved(exts, layers) ==
    {i \in 1..Len(exts) :
        /\ ~oriCheckInstanceExtensionAvailability(exts[i], NULL)
        /\ FirstProvidingLayer(exts[i], layers) = 0}

\* ub: what formatting or handing on a NULL name, or reading a slot that
\* cannot be read, does: "fault" or "continue".
oriCreateStateInstance(layers, exts, insts, memory, live, mask, flag, instancePtr, vkOk, ub) ==
    LET dropped == Unresolved(exts, layers)
        nulled == [i \in 1..Len(exts) |-> IF i \in dropped THEN NULL ELSE exts[i]]
        createExts == FirstSlots(nulled, Len(exts) - Cardinality(dropped))
        debugUtilsExtFound ==
            /\ DEBUG_UTILS \in Range(exts)
            /\ oriCheckInstanceExtensionAvailability(DEBUG_UTILS, NULL)
        warnings == WarnEach(mask, [k \in 1..Cardinality(dropped) |->
                        exts[CHOOSE i \in dropped :
                                Cardinality({d \in dropped : d < i}) = k - 1]])
        noMessenger == IF flag /\ ~debugUtilsExtFound
                       THEN _ori_Warning(mask, "") ELSE <<>>
        native == Native(layers, createExts, flag /\ debugUtilsExtFound)
        h == FreeHandles(StateHandleSeq, live)[1]
        r == IF ~vkOk THEN "ERROR_VULKAN_ERROR"
             ELSE IF dropped # {} THEN "ERROR_NOT_FOUND" ELSE "OK"
    IN  IF (dropped # {} \/ Unreadable(layers)) /\ ub = "fault"
        THEN [layers |-> layers, exts |-> nulled, instances |-> insts,
              memory |-> memory, live |-> live, ret |-> "FAULT",
              emitted |-> warnings, native |-> NoNative, fault |-> TRUE]
        ELSE [layers |-> <<>>, exts |-> <<>>,
              instances |-> Append(insts, instancePtr),
              memory |-> IF vkOk THEN [memory EXCEPT ![instancePtr] = h] ELSE memory,
              live |-> IF vkOk THEN live \cup {h} ELSE live,
              ret |-> r,
              emitted |-> warnings \o noMessenger
                          \o (IF vkOk THEN <<>>
                              ELSE _ori_ThrowError(mask, ORERR_VULKAN_RETURN_ERROR))
                          \o _ori_Notification(mask, instancePtr),
              native |-> native, fault |-> FALSE]

(***************************************************************************)
(* The calls a program can make (revision of src/vulkan).                  *)
(***************************************************************************)
\* A call refused for a NULL pointer returns before it reads its other
\* arguments, so one value of each stands for all of them.
ArgsAfter(ptr, values) ==
    IF ptr = NULL THEN {CHOOSE v \in values : TRUE} ELSE values

\* "" for a call refused because of a NULL pointer, else the function's name.
Accepted(op, ptrs) == IF NULL \in ptrs THEN "" ELSE op

\* The fields of a zeroed state object, with the library configuration as
\* built, before any call.
VkZero ==
    /\ enabledLayers = <<>>
    /\ enabledExtensions = <<>>
    /\ instances = <<>>
    /\ displayedErrorSeverities = {}
    /\ createInstanceDebugMessengers = FALSE
    /\ call = Call("", <<>>, "OK", <<>>, {}, NoNative)
    /\ trail = 0
    /\ trailWarn = 0

\* What the calls of one revision leave alone.
VkFrame == UNCHANGED <<libVars, lifeVars, nativeVars, stateVars, dbgVars, emitVars>>

VkInit ==
    /\ VkZero
    /\ DbgZero
    /\ EmitZero
    /\ LibZero
    /\ LifeZero
    /\ NoRequest
    /\ NativeZero
    /\ stateAlloc = "live"
    /\ handleAt = [p \in StateInstancePtrs |-> VK_NULL_HANDLE]

CallFlagLayerEnabled ==
    /\ VkFrame
    /\ \E state \in {StatePtr, NULL} : \E layer \in ArgsAfter(state, LayerNames) :
        LET f == oriFlagLayerEnabled(state, enabledLayers,
                                     displayedErrorSeverities, layer)
        IN  /\ Len(f.layers) <= MaxLayers
            /\ enabledLayers' = f.layers
            /\ call' = Call("oriFlagLayerEnabled", <<state, layer>>, f.ret,
                            f.emitted, f.queried, NoNative)
            /\ Observe(Accepted("oriFlagLayerEnabled", {state}), layer, f.emitted)
            /\ UNCHANGED <<enabledExtensions, instances, displayedErrorSeverities,
                           createInstanceDebugMessengers>>

CallFlagInstanceExtensionEnabled ==
    /\ VkFrame
    /\ \E state \in {StatePtr, NULL} : \E extension \in ArgsAfter(state, ExtNames) :
        LET f == oriFlagInstanceExtensionEnabled(state, enabledExtensions,
                                                 displayedErrorSeverities, extension)
        IN  /\ Len(f.exts) <= MaxExt
            /\ enabledExtensions' = f.exts
            /\ call' = Call("oriFlagInstanceExtensionEnabled", <<state, extension>>,
                            f.ret, f.emitted, f.queried, NoNative)
            /\ Observe(Accepted("oriFlagInstanceExtensionEnabled", {state}),
                       extension, f.emitted)
            /\ UNCHANGED <<enabledLayers, instances, displayedErrorSeverities,
                           createInstanceDebugMessengers>>

CallPruneInstanceExtensions ==
    /\ VkFrame
    /\ \E state \in {StatePtr, NULL} :
        LET f == oriPruneInstanceExtensions(state, enabledExtensions, enabledLayers,
                                            displayedErrorSeverities)
        IN  /\ enabledExtensions' = f.exts
            /\ call' = Call("oriPruneInstanceExtensions", <<state>>, f.ret,
                            f.emitted, f.queried, NoNative)
            /\ Observe(Accepted("oriPruneInstanceExtensions", {state}), "", f.emitted)
            /\ UNCHANGED <<enabledLayers, instances, displayedErrorSeverities,
                           createInstanceDebugMessengers>>

CallCreateInstance ==
    /\ VkFrame
    /\ \E instanceOut \in InstancePtrs \cup {NULL} :
       \E state \in ArgsAfter(instanceOut, {StatePtr, NULL}) :
       \E vkOk \in ArgsAfter(state, BOOLEAN) :
        LET f == oriCreateInstance(state, instanceOut, enabledExtensions,
                                   enabledLayers, instances,
                                   displayedErrorSeverities,
                                   createInstanceDebugMessengers, vkOk)
        IN  /\ Len(f.instances) <= MaxInstances
            /\ enabledExtensions' = f.exts
            /\ instances' = f.instances
            /\ call' = Call("oriCreateInstance", <<state, instanceOut>>, f.ret,
                            f.emitted, f.queried, f.native)
            /\ Observe(Accepted("oriCreateInstance", {state, instanceOut}), "",
                       f.emitted)
            /\ UNCHANGED <<enabledLayers, displayedErrorSeverities,
                           createInstanceDebugMessengers>>

CallEnableLibDebugMessages ==
    /\ VkFrame
    /\ \E severities \in SeverityInputs :
        /\ displayedErrorSeverities' =
               oriEnableLibDebugMessages(displayedErrorSeverities, severities)
        /\ call' = Call("oriEnableLibDebugMessages", <<severities>>, "OK", <<>>, {},
                        NoNative)
        /\ Observe("oriEnableLibDebugMessages", "", <<>>)
        /\ UNCHANGED <<enabledLayers, enabledExtensions, instances,
                       createInstanceDebugMessengers>>

CallSetFlag ==
    /\ VkFrame
    /\ \E flag \in FlagInputs, val \in BOOLEAN :
        LET f == oriSetFlag(displayedErrorSeverities,
                            createInstanceDebugMessengers, flag, val)
        IN  /\ createInstanceDebugMessengers' = f.flag
            /\ call' = Call("oriSetFlag", <<flag, val>>, f.ret, f.emitted, {},
                            NoNative)
            /\ Observe("oriSetFlag", "", f.emitted)
            /\ UNCHANGED <<enabledLayers, enabledExtensions, instances,
                           displayedErrorSeverities>>

VkNext ==
    \/ CallFlagLayerEnabled
    \/ CallFlagInstanceExtensionEnabled
    \/ CallPruneInstanceExtensions
    \/ CallCreateInstance
    \/ CallEnableLibDebugMessages
    \/ CallSetFlag

SpecVk == VkInit /\ [][VkNext]_vars

(***************************************************************************)
(* The calls a program can make around debug messengers (same revision),   *)
(* and the driver's call of the messenger callback.  A messenger is        *)
(* created for an instance the state holds and into a variable that holds  *)
(* no messenger yet.                                                       *)
(***************************************************************************)
DbgFrame == UNCHANGED <<libVars, lifeVars, nativeVars, stateVars, emitVars>>

\* The teardown frees the state object: the program makes no call on it
\* afterwards.
Alive == call.op # "destroyAll"

\* The program asks for the debug utilities extension, once.
CallFlagDebugUtils ==
    /\ Alive
    /\ DEBUG_UTILS \notin Range(enabledExtensions)
    /\ CallFlagInstanceExtensionEnabled
    /\ call'.arg = <<StatePtr, DEBUG_UTILS>>

CallCreateOwner ==
    /\ Alive
    /\ CallCreateInstance

CallSetErrorCallback ==
    /\ Alive
    /\ DbgFrame
    /\ \E input \in ErrorCallbackInputs :
        LET f == oriSetErrorCallback(input[1], input[2])
        IN  /\ errorCallback' = f.errorCallback
            /\ errorCallbackUserData' = f.errorCallbackUserData
            /\ call' = Call("oriSetErrorCallback", input, "OK", <<>>, {}, NoNative)
            /\ Observe("oriSetErrorCallback", "", <<>>)
            /\ UNCHANGED <<enabledLayers, enabledExtensions, instances,
                           displayedErrorSeverities,
                           createInstanceDebugMessengers, debugMessengers,
                           nativeMessengers, teardown, relayed>>

CallCreateDebugMessenger ==
    /\ Alive
    /\ DbgFrame
    /\ \E state \in {StatePtr, NULL} :
       \E instance \in ArgsAfter(state, Range(instances) \cup {NULL}) :
       \E debugMessengerPtr \in
              ArgsAfter(instance,
                        (MessengerPtrs \ {m.handle : m \in nativeMessengers})
                            \cup {NULL}) :
       \E vkOk \in ArgsAfter(debugMessengerPtr, BOOLEAN) :
        LET f == oriCreateDebugMessenger(state, instance, debugMessengerPtr,
                                         enabledExtensions, debugMessengers,
                                         displayedErrorSeverities,
                                         errorCallbackUserData, vkOk)
        IN  /\ Len(f.registry) <= MaxMessengers
            /\ debugMessengers' = f.registry
            /\ nativeMessengers' = nativeMessengers \cup f.created
            /\ call' = Call("oriCreateDebugMessenger",
                            <<state, instance, debugMessengerPtr>>, f.ret,
                            f.emitted, {}, NoNative)
            /\ Observe(Accepted("oriCreateDebugMessenger",
                                {state, instance, debugMessengerPtr}), "",
                       f.emitted)
            /\ UNCHANGED <<enabledLayers, enabledExtensions, instances,
                           displayedErrorSeverities,
                           createInstanceDebugMessengers, errorCallback,
                           errorCallbackUserData, teardown, relayed>>

\* The driver reports a message through one of its messengers.
CallVulkanDebugMessengerCallback ==
    /\ Alive
    /\ DbgFrame
    /\ \E m \in nativeMessengers :
        LET f == _ori_VulkanDebugMessengerCallback(errorCallback, m.pUserData)
        IN  /\ relayed' = [invoked |-> TRUE, callback |-> f.callback,
                           pointer |-> f.pointer,
                           installed |-> errorCallbackUserData]
            /\ call' = Call("_ori_VulkanDebugMessengerCallback", <<m.handle>>,
                            "VK_FALSE", <<>>, {}, NoNative)
            /\ Observe("_ori_VulkanDebugMessengerCallback", "", <<>>)
            /\ UNCHANGED <<enabledLayers, enabledExtensions, instances,
                           displayedErrorSeverities,
                           createInstanceDebugMessengers, errorCallback,
                           errorCallbackUserData, debugMessengers,
                           nativeMessengers, teardown>>

\* The teardown of the state object and of the library configuration.
CallDestroyAll ==
    /\ Alive
    /\ DbgFrame
    /\ LET log == destroyAll(debugMessengers, instances)
       IN  /\ teardown' = [dependents |-> nativeMessengers, log |-> log]
           /\ nativeMessengers' =
                  {m \in nativeMessengers :
                      /\ Destroyed("messenger", m.handle) \notin Range(log)
                      /\ Destroyed("instance", m.instance) \notin Range(log)}
           /\ debugMessengers' = <<>>
           /\ instances' = <<>>
           /\ enabledLayers' = <<>>
           /\ enabledExtensions' = <<>>
           /\ displayedErrorSeverities' = {}
           /\ createInstanceDebugMessengers' = FALSE
           /\ errorCallback' = NULL
           /\ errorCallbackUserData' = NULL
           /\ relayed' = NotRelayed
           /\ call' = Call("destroyAll", <<StatePtr>>, "OK", <<>>, {}, NoNative)
           /\ Observe("destroyAll", "", <<>>)

DbgNext ==
    \/ CallFlagDebugUtils
    \/ CallCreateOwner
    \/ CallSetErrorCallback
    \/ CallCreateDebugMessenger
    \/ CallVulkanDebugMessengerCallback
    \/ CallDestroyAll

SpecDbg == VkInit /\ [][DbgNext]_vars

(***************************************************************************)
(* Emissions under every mask: the mask is set through the public setter  *)
(* of the revision the program is linked with, then one of that            *)
(* revision's emitters runs.  _oriFatalError ends the process.             *)
(***************************************************************************)
AnySeverities == SUBSET Severities

EmitFrame ==
    UNCHANGED <<enabledLayers, enabledExtensions, instances,
                createInstanceDebugMessengers, trail, trailWarn, initialised,
                vkInstances, instanceMemory, session, reqLayers, reqExts,
                liveInstances, strayDestroy, lifeVars, stateVars, dbgVars>>

\* Which revision the program has called so far ("" for none yet).
LinkedWith ==
    IF call.op # "" \/ emission.via \in {e.via : e \in EmittersOfHelpers({})}
    THEN "helpers"
    ELSE IF libCall.op # "" \/ emission.via # "" THEN "debug" ELSE ""

EmitEnableLibDebugMessages ==
    /\ ~halted
    /\ LinkedWith \in {"", "helpers"}
    /\ EmitFrame
    /\ \E severities \in AnySeverities :
        /\ displayedErrorSeverities' =
               oriEnableLibDebugMessages(displayedErrorSeverities, severities)
        /\ call' = Call("oriEnableLibDebugMessages", <<severities>>, "OK", <<>>,
                        {}, NoNative)
        /\ UNCHANGED <<debugMessageSeverities, libCall, halted, emission>>

\* oriConfigureDebugMessages logs the change before it makes it.
EmitConfigureDebugMessages ==
    /\ ~halted
    /\ LinkedWith \in {"", "debug"}
    /\ EmitFrame
    /\ \E severities \in AnySeverities :
        LET f == oriConfigureDebugMessages(debugMessageSeverities, severities)
        IN  /\ debugMessageSeverities' = f.mask
            /\ libCall' = LibCall("oriConfigureDebugMessages", <<severities>>,
                                  f.ret, f.emitted, <<>>, NoOut)
            /\ emission' = Emission("_oriLog", "VERBOSE", debugMessageSeverities,
                                    DBGCB_CALL_NOTERR(debugMessageSeverities,
                                                      "VERBOSE"),
                                    f.emitted # <<>>)
            /\ UNCHANGED <<displayedErrorSeverities, call, halted>>

EmitByHelpers ==
    /\ ~halted
    /\ LinkedWith \in {"", "helpers"}
    /\ EmitFrame
    /\ \E e \in EmittersOfHelpers(displayedErrorSeverities) :
        /\ emission' = e
        /\ UNCHANGED <<displayedErrorSeverities, debugMessageSeverities, call,
                       libCall, halted>>

EmitByDebug ==
    /\ ~halted
    /\ LinkedWith \in {"", "debug"}
    /\ EmitFrame
    /\ \E e \in EmittersOfDebug(debugMessageSeverities) :
        /\ emission' = e
        /\ halted' = (e.via = "_oriFatalError")
        /\ UNCHANGED <<displayedErrorSeverities, debugMessageSeverities, call,
                       libCall>>

EmitNext ==
    \/ EmitEnableLibDebugMessages
    \/ EmitConfigureDebugMessages
    \/ EmitByHelpers
    \/ EmitByDebug

EmitInit ==
    /\ VkZero
    /\ DbgZero
    /\ EmitZero
    /\ LibZero
    /\ LifeZero
    /\ NoRequest
    /\ NativeZero
    /\ StateZero

SpecEmit == EmitInit /\ [][EmitNext]_vars


(***************************************************************************)
(* The calls a program can make (library revision).  After the process     *)
(* exited or faulted there are none.                                       *)
(***************************************************************************)
LibFrame == UNCHANGED <<vkVars, stateVars, dbgVars, emitVars>>

LibInit ==
    /\ VkZero
    /\ DbgZero
    /\ EmitZero
    /\ LibZero
    /\ LifeZero
    /\ NativeZero
    /\ StateZero
    /\ \E request \in Requests :
           /\ reqLayers = request[1]
           /\ reqExts = request[2]

\* oriInit returns before it reads its arrays when one of these holds.
ReturnsEarly(instanceCount, instanceOut) ==
    initialised \/ instanceOut = NULL \/ instanceCount = 0

\* Whether this request makes oriInit read an uninitialised slot.
ReadsGarbage(layerNames, extNames) ==
    /\ layerNames # NullArray
    /\ extNames # NullArray
    /\ LET actualLayers == ActualEnabledLayers(layerNames)
           layerCount == ActualEnabledLayerCount(layerNames)
       IN  Garbage \in Range(FirstSlots(actualLayers, layerCount))
                       \cup Range(FirstSlots(
                                ActualEnabledExts(extNames, actualLayers, layerCount),
                                ActualEnabledExtCount(extNames, actualLayers,
                                                      layerCount)))

CallInit ==
    /\ ~halted
    /\ LibFrame
    /\ \E instanceCount \in InstanceCounts, instanceOut \in {UserInstance, NULL} :
       \E failAt \in IF ReturnsEarly(instanceCount, instanceOut)
                     THEN {0} ELSE 0..instanceCount :
       \E mallocOk \in IF failAt = 0 /\ ~ReturnsEarly(instanceCount, instanceOut)
                       THEN BOOLEAN ELSE {TRUE} :
       \E ub \in IF ReadsGarbage(reqLayers, reqExts)
                    /\ ~ReturnsEarly(instanceCount, instanceOut)
                 THEN {"fault", "continue"} ELSE {"continue"} :
           LET f == lib_oriInit(initialised, vkInstances, debugMessageSeverities,
                                instanceMemory, liveInstances, instanceCount,
                                instanceOut, reqLayers, reqExts, failAt,
                                mallocOk, ub)
           IN  /\ Len(FreeHandles(HandleSeq, liveInstances)) >= instanceCount
               /\ initialised' = f.initialised
               /\ vkInstances' = f.table
               /\ instanceMemory' = f.memory
               /\ liveInstances' = f.live
               /\ halted' = f.halted
               /\ session' = IF f.ret = "OK" THEN instanceOut ELSE session
               /\ libCall' = LibCall("oriInit",
                                     [instanceCount |-> instanceCount,
                                      instanceOut |-> instanceOut],
                                     f.ret, f.emitted, f.native, NoOut)
               /\ owed' = IF f.ret = "OK"
                          THEN [instances |-> f.live \ liveInstances,
                                devices |-> {}]
                          ELSE owed
               /\ UNCHANGED <<debugMessageSeverities, strayDestroy,
                              reqLayers, reqExts, callbacks, vkDevices,
                              deviceMemory, liveDevices, allocated, userCallback>>

CallTerminate ==
    /\ ~halted
    /\ LibFrame
    /\ LET f == lib_oriTerminate(vkInstances, debugMessageSeverities,
                                 instanceMemory, liveInstances, callbacks)
       IN  /\ initialised' = f.initialised
           /\ vkInstances' = f.table
           /\ debugMessageSeverities' = f.mask
           /\ liveInstances' = f.live
           /\ strayDestroy' = (strayDestroy \/ f.stray)
           /\ session' = NULL
           /\ libCall' = LibCall("oriTerminate",
                                 [callbacks |-> callbacks,
                                  mask |-> debugMessageSeverities],
                                 f.ret, f.emitted, <<>>, NoOut)
           /\ callbacks' = f.callbacks
           /\ vkDevices' = f.devices
           /\ allocated' = {}
           /\ userCallback' = NULL
           /\ owed' = [instances |-> owed.instances \cap f.live,
                       devices |-> owed.devices \cap liveDevices]
           /\ UNCHANGED <<instanceMemory, halted, reqLayers, reqExts,
                          deviceMemory, liveDevices>>

\* With a NULL instance the call returns before it reads its outputs.
EnumerateArgs ==
    {a \in [instance : {UserInstance, ForeignInstance, NULL},
            countOut : {"&count", NULL}, namesOut : {"&names", NULL}] :
        /\ a.instance = NULL => a.countOut = NULL /\ a.namesOut = NULL
        /\ a.countOut = NULL => a.namesOut = NULL}

CallEnumerateEnabledLayers ==
    /\ ~halted
    /\ LibFrame
    /\ \E a \in EnumerateArgs :
           LET f == oriEnumerateEnabledLayers(vkInstances, debugMessageSeverities,
                                              a.instance, a.countOut, a.namesOut)
           IN  /\ libCall' = LibCall("oriEnumerateEnabledLayers", a, f.ret,
                                     f.emitted, <<>>, f.out)
               /\ UNCHANGED <<initialised, debugMessageSeverities, vkInstances,
                              instanceMemory, session, nativeVars,
                              reqLayers, reqExts, lifeVars>>

CallEnumerateEnabledInstanceExtensions ==
    /\ ~halted
    /\ LibFrame
    /\ \E a \in EnumerateArgs :
           LET f == oriEnumerateEnabledInstanceExtensions(
                        vkInstances, debugMessageSeverities,
                        a.instance, a.countOut, a.namesOut)
           IN  /\ libCall' = LibCall("oriEnumerateEnabledInstanceExtensions", a,
                                     f.ret, f.emitted, <<>>, f.out)
               /\ UNCHANGED <<initialised, debugMessageSeverities, vkInstances,
                              instanceMemory, session, nativeVars,
                              reqLayers, reqExts, lifeVars>>

CallConfigureDebugMessages ==
    /\ ~halted
    /\ LibFrame
    /\ \E severities \in ConfiguredSeverities :
           LET f == oriConfigureDebugMessages(debugMessageSeverities, severities)
           IN  /\ debugMessageSeverities' = f.mask
               /\ libCall' = LibCall("oriConfigureDebugMessages", severities,
                                     f.ret, f.emitted, <<>>, NoOut)
               /\ UNCHANGED <<initialised, vkInstances, instanceMemory, session,
                              nativeVars, reqLayers, reqExts, lifeVars>>

LibNext ==
    \/ CallInit
    \/ CallTerminate
    \/ CallEnumerateEnabledLayers
    \/ CallEnumerateEnabledInstanceExtensions
    \/ CallConfigureDebugMessages

SpecLib == LibInit /\ [][LibNext]_vars

(***************************************************************************)
(* The life of the library object: a program that passes oriInit arrays    *)
(* whose layers and extensions are all provided, sets callbacks and        *)
(* allocators, creates logical devices, terminates and initialises again.  *)
(***************************************************************************)
ValidRequests ==
    {<<<<>>, <<>>>>, <<<<"L1">>, <<"E1">>>>}

LifeInit ==
    /\ VkZero
    /\ DbgZero
    /\ EmitZero
    /\ LibZero
    /\ LifeZero
    /\ NativeZero
    /\ StateZero
    /\ \E request \in ValidRequests :
           /\ reqLayers = request[1]
           /\ reqExts = request[2]

LibUnchanged ==
    UNCHANGED <<initialised, debugMessageSeverities, vkInstances, instanceMemory,
                session, reqLayers, reqExts, liveInstances, strayDestroy>>

CallSetDebugCallback ==
    /\ ~halted
    /\ LibFrame
    /\ LibUnchanged
    /\ \E input \in DebugCallbackInputs :
           LET f == oriSetDebugCallback(callbacks, debugMessageSeverities,
                                        input[1], input[2])
           IN  /\ callbacks' = f.callbacks
               /\ userCallback' = input[1]
               /\ libCall' = LibCall("oriSetDebugCallback", input, f.ret,
                                     f.emitted, <<>>, NoOut)
    /\ UNCHANGED <<halted, vkDevices, deviceMemory, liveDevices, owed, allocated>>

CallSetVulkanAllocators ==
    /\ ~halted
    /\ LibFrame
    /\ LibUnchanged
    /\ \E allocators \in AllocatorInputs :
           LET f == oriSetVulkanAllocators(callbacks, debugMessageSeverities,
                                           allocators)
           IN  /\ callbacks' = f.callbacks
               /\ libCall' = LibCall("oriSetVulkanAllocators", allocators, f.ret,
                                     f.emitted, <<>>, NoOut)
    /\ UNCHANGED <<halted, vkDevices, deviceMemory, liveDevices, owed, allocated,
                   userCallback>>

\* The calls with a NULL argument are made with nothing else of interest.
DeviceArgs ==
    {a \in [deviceOut : DevicePtrs \cup {NULL},
            physicalDevice : {PhysicalDevice, NULL},
            queuesNull : BOOLEAN,
            extensionNames : DeviceExtensionRequests] :
        /\ a.deviceOut = NULL =>
               a.physicalDevice = PhysicalDevice /\ ~a.queuesNull
               /\ a.extensionNames = <<>>
        /\ a.physicalDevice = NULL => ~a.queuesNull /\ a.extensionNames = <<>>
        /\ a.queuesNull => a.extensionNames = <<>>}

\* Whether the call gets as far as the extension loop.
ReachesLoop(a) ==
    /\ a.deviceOut # NULL
    /\ a.physicalDevice # NULL
    /\ ~a.queuesNull
    /\ a.extensionNames # NullArray
    /\ HASH_FIND_PTR(vkDevices, a.deviceOut) = {}

CallCreateLogicalDevice ==
    /\ ~halted
    /\ LibFrame
    /\ Cardinality(liveDevices) < MaxDevices
    /\ \E a \in DeviceArgs :
       \E vkOk \in IF ReachesLoop(a) THEN BOOLEAN ELSE {TRUE} :
       \E ub \in IF /\ ReachesLoop(a)
                    /\ \/ DeviceLoopUndefined(a.extensionNames, vkInstances)
                       \/ a.extensionNames = <<"DX", "VK_KHR_swapchain">>
                 THEN {"fault", "continue"} ELSE {"continue"} :
           LET f == oriCreateLogicalDevice(vkDevices, vkInstances,
                                           debugMessageSeverities, deviceMemory,
                                           liveDevices, a.deviceOut,
                                           a.physicalDevice, a.queuesNull,
                                           a.extensionNames, vkOk, ub)
           IN  /\ deviceMemory' = f.memory
               /\ liveDevices' = f.live
               /\ halted' = f.halted
               /\ owed' = IF f.ret = "OK" /\ initialised
                          THEN [owed EXCEPT !.devices = @ \cup (f.live \ liveDevices)]
                          ELSE owed
               /\ allocated' = IF f.ret = "OK" THEN allocated \cup {a.deviceOut}
                               ELSE allocated
               /\ libCall' = LibCall("oriCreateLogicalDevice", a, f.ret,
                                     f.emitted, f.native, NoOut)
    /\ UNCHANGED <<initialised, debugMessageSeverities, vkInstances,
                   instanceMemory, session, reqLayers, reqExts, liveInstances,
                   strayDestroy, callbacks, vkDevices, userCallback>>

LifeNext ==
    \/ CallInit
    \/ CallTerminate
    \/ CallConfigureDebugMessages
    \/ CallSetDebugCallback
    \/ CallSetVulkanAllocators
    \/ CallCreateLogicalDevice

SpecLife == LifeInit /\ [][LifeNext]_vars

(***************************************************************************)
(* The calls a program can make (revision of src/init.c).  The functions   *)
(* take the state object without a NULL test; the program passes the one   *)
(* it created, and oriFreeState possibly again after it was freed.         *)
(***************************************************************************)
StateFrame == UNCHANGED <<libVars, lifeVars, trail, trailWarn, dbgVars, emitVars>>

StateInit == VkZero /\ DbgZero /\ EmitZero /\ LibZero /\ LifeZero /\ NoRequest /\ NativeZero /\ StateZero

CallCreateState ==
    /\ ~halted
    /\ stateAlloc # "live"
    /\ StateFrame
    /\ LET f == oriCreateState
       IN  /\ stateAlloc' = f.alloc
           /\ enabledLayers' = f.layers
           /\ enabledExtensions' = f.exts
           /\ instances' = f.instances
           /\ call' = Call("oriCreateState", <<>>, "OK", f.emitted, {}, NoNative)
           /\ UNCHANGED <<handleAt, nativeVars, displayedErrorSeverities,
                          createInstanceDebugMessengers>>

CallStateFlagLayerEnabled ==
    /\ ~halted
    /\ stateAlloc = "live"
    /\ StateFrame
    /\ \E layer \in {"L1", "LX"} :
       \E alloc \in IF oriCheckLayerAvailability(layer)
                    THEN Allocations ELSE {"ok"} :
           LET f == ext_oriFlagLayerEnabled(enabledLayers,
                                            displayedErrorSeverities, layer, alloc)
           IN  /\ Len(f.layers) <= MaxLayers
               /\ enabledLayers' = f.layers
               /\ halted' = f.fault
               /\ call' = Call("oriFlagLayerEnabled", <<StatePtr, layer>>, f.ret,
                               f.emitted, f.queried, NoNative)
               /\ UNCHANGED <<enabledExtensions, instances, stateVars,
                              liveInstances, strayDestroy,
                              displayedErrorSeverities,
                              createInstanceDebugMessengers>>

CallStateFlagInstanceExtensionEnabled ==
    /\ ~halted
    /\ stateAlloc = "live"
    /\ StateFrame
    /\ \E extension \in {"E1", DEBUG_UTILS}, alloc \in Allocations :
           LET f == ext_oriFlagInstanceExtensionEnabled(
                        enabledExtensions, displayedErrorSeverities, extension,
                        alloc)
           IN  /\ Len(f.exts) <= MaxStateExt
               /\ enabledExtensions' = f.exts
               /\ halted' = f.fault
               /\ call' = Call("oriFlagInstanceExtensionEnabled",
                               <<StatePtr, extension>>, f.ret, f.emitted,
                               f.queried, NoNative)
               /\ UNCHANGED <<enabledLayers, instances, stateVars,
                              liveInstances, strayDestroy,
                              displayedErrorSeverities,
                              createInstanceDebugMessengers>>

CallCreateStateInstance ==
    /\ ~halted
    /\ stateAlloc = "live"
    /\ StateFrame
    /\ \E instancePtr \in StateInstancePtrs, vkOk \in BOOLEAN :
       \E ub \in IF \/ Unresolved(enabledExtensions, enabledLayers) # {}
                    \/ Unreadable(enabledLayers)
                 THEN {"fault", "continue"} ELSE {"continue"} :
           LET f == oriCreateStateInstance(
                        enabledLayers, enabledExtensions, instances, handleAt,
                        liveInstances, displayedErrorSeverities,
                        createInstanceDebugMessengers, instancePtr, vkOk, ub)
           IN  /\ Len(instances) < MaxStateInstances
               /\ vkOk => FreeHandles(StateHandleSeq, liveInstances) # <<>>
               /\ enabledLayers' = f.layers
               /\ enabledExtensions' = f.exts
               /\ instances' = f.instances
               /\ handleAt' = f.memory
               /\ liveInstances' = f.live
               /\ halted' = f.fault
               /\ call' = Call("oriCreateStateInstance", <<StatePtr, instancePtr>>,
                               f.ret, f.emitted, {}, f.native)
               /\ UNCHANGED <<stateAlloc, strayDestroy, displayedErrorSeverities,
                              createInstanceDebugMessengers>>

CallFreeState ==
    /\ ~halted
    /\ stateAlloc # "none"
    /\ StateFrame
    /\ LET f == oriFreeState(stateAlloc, instances, handleAt, liveInstances,
                             strayDestroy)
       IN  /\ stateAlloc' = f.alloc
           /\ instances' = f.instances
           /\ handleAt' = f.memory
           /\ liveInstances' = f.live
           /\ strayDestroy' = f.stray
           /\ halted' = f.fault
           /\ enabledLayers' = IF f.fault THEN enabledLayers ELSE <<>>
           /\ enabledExtensions' = IF f.fault THEN enabledExtensions ELSE <<>>
           /\ call' = Call("oriFreeState", <<StatePtr>>,
                           IF f.fault THEN "FAULT" ELSE "OK", <<>>, {}, NoNative)
           /\ UNCHANGED <<displayedErrorSeverities, createInstanceDebugMessengers>>

CallStateEnableLibDebugMessages ==
    /\ ~halted
    /\ StateFrame
    /\ \E severities \in SeverityInputs :
        /\ displayedErrorSeverities' =
               oriEnableLibDebugMessages(displayedErrorSeverities, severities)
        /\ call' = Call("oriEnableLibDebugMessages", <<severities>>, "OK", <<>>, {},
                        NoNative)
        /\ UNCHANGED <<enabledLayers, enabledExtensions, instances,
                       createInstanceDebugMessengers, stateVars, nativeVars>>

StateNext ==
    \/ CallCreateState
    \/ CallStateFlagLayerEnabled
    \/ CallStateFlagInstanceExtensionEnabled
    \/ CallCreateStateInstance
    \/ CallFreeState
    \/ CallStateEnableLibDebugMessages

SpecState == StateInit /\ [][StateNext]_vars

(***************************************************************************)
(* The revision of src/vkabstract_core.c: the requested layers and         *)
(* extensions are linked lists to which a request is prepended, and the    *)
(* state holds one instance pointer (instances is <<>> or that pointer).   *)
(* Its state object is created outside this file; stateAlloc is "given"    *)
(* for it.                                                                 *)
(***************************************************************************)
abs_oriFlagLayerEnabled(layers, mask, layer) ==
    IF ~oriCheckLayerAvailability(layer)
    THEN [layers |-> layers, ret |-> "ERROR_NOT_FOUND",
          emitted |-> _ori_Warning(mask, layer), queried |-> {<<layer, NULL>>}]
    ELSE [layers |-> <<layer>> \o layers, ret |-> "OK", emitted |-> <<>>,
          queried |-> {<<layer, NULL>>}]

abs_oriFlagInstanceExtensionEnabled(exts, extension) ==
    [exts |-> <<extension>> \o exts, ret |-> "OK", emitted |-> <<>>, queried |-> {}]

\* The unlinking of oriCreateStateVkInstance: prev is set to every node
\* passed, unlinked or not, so the node after an unlinked one is unlinked
\* from a node that is no longer in the list and stays in it.
RECURSIVE Unlinked(_, _)
Unlinked(dropped, i) ==
    IF i = 0 THEN {}
    ELSE LET before == Unlinked(dropped, i - 1)
         IN  IF i \in dropped /\ (i = 1 \/ i - 1 \notin before)
             THEN before \cup {i} ELSE before

\* A creation that leaves the two lists as it found them.
oriCreateStateVkInstance_KeepsLists(layers, exts, memory, live, mask, instancePtr, vkOk) ==
    [layers |-> layers, exts |-> exts, instances |-> <<instancePtr>>,
     memory |-> memory, live |-> live, ret |-> "OK", emitted |-> <<>>,
     native |-> Native(layers, exts, FALSE)]

oriCreateStateVkInstance(layers, exts, memory, live, mask, instancePtr, vkOk) ==
    LET dropped == Unresolved(exts, layers)
        unlinked == Unlinked(dropped, Len(exts))
        list == SelectSeq([i \in 1..Len(exts) |-> <<i, exts[i]>>],
                          LAMBDA n : n[1] \notin unlinked)
        extNames == [k \in 1..Len(list) |-> list[k][2]]
        createExts == FirstSlots(extNames, Len(exts) - Cardinality(dropped))
        warnings == WarnEach(mask, SelectSeq(exts, LAMBDA e :
                        \E i \in dropped : exts[i] = e))
        h == FreeHandles(StateHandleSeq, live)[1]
        r == IF ~vkOk THEN "ERROR_VULKAN_ERROR"
             ELSE IF dropped # {} THEN "ERROR_NOT_FOUND" ELSE "OK"
    IN  [layers |-> <<>>, exts |-> <<>>, instances |-> <<instancePtr>>,
         memory |-> IF vkOk THEN [memory EXCEPT ![instancePtr] = h] ELSE memory,
         live |-> IF vkOk THEN live \cup {h} ELSE live,
         ret |-> r,
         emitted |-> (IF layers # <<>> THEN _ori_Notification(mask, "layers")
                      ELSE <<>>)
                     \o warnings
                     \o (IF exts # <<>> THEN _ori_Notification(mask, "extensions")
                         ELSE <<>>)
                     \o (IF vkOk THEN <<>>
                         ELSE _ori_ThrowError(mask, ORERR_VULKAN_RETURN_ERROR)),
         native |-> Native(layers, createExts, FALSE)]

CallAbsFlagLayerEnabled ==
    /\ ~halted
    /\ stateAlloc = "given"
    /\ StateFrame
    /\ \E layer \in {"L1", "LX"} :
           LET f == abs_oriFlagLayerEnabled(enabledLayers,
                                            displayedErrorSeverities, layer)
           IN  /\ Len(f.layers) <= MaxLayers
               /\ enabledLayers' = f.layers
               /\ call' = Call("oriFlagLayerEnabled", <<StatePtr, layer>>, f.ret,
                               f.emitted, f.queried, NoNative)
    /\ UNCHANGED <<enabledExtensions, instances, stateVars, nativeVars,
                   displayedErrorSeverities, createInstanceDebugMessengers>>

CallAbsFlagInstanceExtensionEnabled ==
    /\ ~halted
    /\ stateAlloc = "given"
    /\ StateFrame
    /\ \E extension \in {"E1", DEBUG_UTILS} :
           LET f == abs_oriFlagInstanceExtensionEnabled(enabledExtensions, extension)
           IN  /\ Len(f.exts) <= MaxStateExt
               /\ enabledExtensions' = f.exts
               /\ call' = Call("oriFlagInstanceExtensionEnabled",
                               <<StatePtr, extension>>, f.ret, f.emitted,
                               f.queried, NoNative)
    /\ UNCHANGED <<enabledLayers, instances, stateVars, nativeVars,
                   displayedErrorSeverities, createInstanceDebugMessengers>>

CallCreateStateVkInstance ==
    /\ ~halted
    /\ stateAlloc = "given"
    /\ StateFrame
    /\ \E instancePtr \in StateInstancePtrs, vkOk \in BOOLEAN :
           LET f == oriCreateStateVkInstance(
                        enabledLayers, enabledExtensions, handleAt, liveInstances,
                        displayedErrorSeverities, instancePtr, vkOk)
           IN  /\ vkOk => FreeHandles(StateHandleSeq, liveInstances) # <<>>
               /\ enabledLayers' = f.layers
               /\ enabledExtensions' = f.exts
               /\ instances' = f.instances
               /\ handleAt' = f.memory
               /\ liveInstances' = f.live
               /\ call' = Call("oriCreateStateVkInstance", <<StatePtr, instancePtr>>,
                               f.ret, f.emitted, {}, f.native)
    /\ UNCHANGED <<stateAlloc, strayDestroy, halted, displayedErrorSeverities,
                   createInstanceDebugMessengers>>

AbsNext ==
    \/ CallAbsFlagLayerEnabled
    \/ CallAbsFlagInstanceExtensionEnabled
    \/ CallCreateStateVkInstance

(***************************************************************************)
(* The three revisions that create instances from a state object.  A       *)
(* program is built against one of them: its state object is given to it   *)
(* with linked lists (src/vkabstract_core.c, "given") or with arrays       *)
(* (src/vulkan, "vulkan"), or it creates it with oriCreateState            *)
(* (src/init.c).                                                           *)
(***************************************************************************)
CreateInit ==
    /\ VkZero
    /\ DbgZero
    /\ EmitZero
    /\ LibZero
    /\ LifeZero
    /\ NoRequest
    /\ NativeZero
    /\ handleAt = [p \in StateInstancePtrs |-> VK_NULL_HANDLE]
    /\ stateAlloc \in {"none", "given", "vulkan"}

\* The calls of src/init.c that lead to a creation.
StateCreationNext ==
    \/ CallCreateState
    \/ CallStateFlagLayerEnabled
    \/ CallStateFlagInstanceExtensionEnabled
    \/ CallCreateStateInstance

CreateNext ==
    \/ stateAlloc = "vulkan" /\ VkNext
    \/ stateAlloc \in {"none", "live"} /\ StateCreationNext
    \/ AbsNext

SpecCreate == CreateInit /\ [][CreateNext]_vars

(***************************************************************************)
(* The dynamic-array macros applied to every small list (orion_helpers.h   *)
(* and the copy of the deduplication macro in src/init.c).  The list is    *)
(* held in enabledExtensions, the field the macros are used on.            *)
(***************************************************************************)
ArrayElems == {"A", "B", "C"}
IndexInputs == 0..(MaxArrayLen + 1)

\* The two copies of the deduplication loop are the same text.
_ori_RemoveDArrayDuplicates(array, len) == RemoveArrayDuplicatesFrom(array, len, 0)

\* (array)[index] = 0 with index = len writes one slot past the block.
WritesPastEnd(array, index) == index = Len(array)

\* With len = 0 the bound len - 1 of the shifting loop wraps and the loop
\* walks off the block; otherwise the write past the end either faults or
\* goes unnoticed (ub).
RemoveFaults(array, index, ub) ==
    /\ WritesPastEnd(array, index)
    /\ (Len(array) = 0 \/ ub = "fault")

ArrayFrame ==
    UNCHANGED <<libVars, lifeVars, stateVars, dbgVars, emitVars, liveInstances,
                strayDestroy, enabledLayers, instances, displayedErrorSeverities,
                createInstanceDebugMessengers, trail, trailWarn>>

ArrayInit ==
    /\ enabledExtensions \in BoundedSeq(ArrayElems, MaxArrayLen)
    /\ enabledLayers = <<>>
    /\ instances = <<>>
    /\ displayedErrorSeverities = {}
    /\ createInstanceDebugMessengers = FALSE
    /\ call = Call("", <<>>, "OK", <<>>, {}, NoNative)
    /\ trail = 0
    /\ trailWarn = 0
    /\ DbgZero
    /\ EmitZero
    /\ LibZero
    /\ LifeZero
    /\ NoRequest
    /\ NativeZero
    /\ stateAlloc = "live"
    /\ handleAt = [p \in StateInstancePtrs |-> VK_NULL_HANDLE]

ApplyAppendOntoDArray ==
    /\ ~halted
    /\ ArrayFrame
    /\ Len(enabledExtensions) < MaxArrayLen
    /\ \E value \in ArrayElems :
        /\ enabledExtensions' = _ori_AppendOntoDArray(enabledExtensions, value)
        /\ halted' = FALSE
        /\ call' = Call("_ori_AppendOntoDArray", <<value>>, "", <<>>, {}, NoNative)

ApplyRemoveFromDArray ==
    /\ ~halted
    /\ ArrayFrame
    /\ \E index \in IndexInputs :
       \E ub \in IF WritesPastEnd(enabledExtensions, index)
                 THEN {"fault", "continue"} ELSE {"continue"} :
        /\ halted' = RemoveFaults(enabledExtensions, index, ub)
        /\ enabledExtensions' =
               IF halted' THEN enabledExtensions
               ELSE _ori_RemoveFromDArray(enabledExtensions, index)
        /\ call' = Call("_ori_RemoveFromDArray", <<index>>, "", <<>>, {}, NoNative)

ApplyRemoveDArrayDuplicates ==
    /\ ~halted
    /\ ArrayFrame
    /\ LET d == _ori_RemoveDArrayDuplicates(enabledExtensions,
                                            Len(enabledExtensions))
       IN  /\ halted' = d.fault
           /\ enabledExtensions' = IF d.fault THEN enabledExtensions
                                   ELSE FirstSlots(d.array, d.count)
           /\ call' = Call("_ori_RemoveDArrayDuplicates", <<>>, "", <<>>, {},
                           NoNative)

ApplyRemoveArrayDuplicates ==
    /\ ~halted
    /\ ArrayFrame
    /\ LET d == __RemoveArrayDuplicates(enabledExtensions, Len(enabledExtensions))
       IN  /\ halted' = d.fault
           /\ enabledExtensions' = IF d.fault THEN enabledExtensions
                                   ELSE FirstSlots(d.array, d.count)
           /\ call' = Call("__RemoveArrayDuplicates", <<>>, "", <<>>, {}, NoNative)

ArrayNext ==
    \/ ApplyAppendOntoDArray
    \/ ApplyRemoveFromDArray
    \/ ApplyRemoveDArrayDuplicates
    \/ ApplyRemoveArrayDuplicates

SpecArray == ArrayInit /\ [][ArrayNext]_vars

(***************************************************************************)
(* Properties of the resolver (SpecVk).                                    *)
(***************************************************************************)
\* What the oracle says of an extension, given the requested layers.
Resolvable(extension, layers) ==
    \/ extension \in vkEnumerateInstanceExtensionProperties(NULL)
    \/ \E layer \in Range(layers) :
           extension \in vkEnumerateInstanceExtensionProperties(layer)

RECURSIVE IsSubsequence(_, _)
IsSubsequence(s, t) ==
    IF s = <<>> THEN TRUE
    ELSE IF t = <<>> THEN FALSE
    ELSE IF Head(s) = Head(t) THEN IsSubsequence(Tail(s), Tail(t))
    ELSE IsSubsequence(s, Tail(t))

Pruned(c) == c.op = "oriPruneInstanceExtensions" /\ c.arg = <<StatePtr>>

\* C1: after oriPruneInstanceExtensions(state) returns, every extension still
\* in the state's list is available from the implementation or from a
\* requested layer (every other one was removed, adjacent ones included).
C1_PruneRemovesEveryUnresolvable ==
    Pruned(call) =>
        \A k \in 1..Len(enabledExtensions) :
            Resolvable(enabledExtensions[k], enabledLayers)

\* C2: after oriFlagInstanceExtensionEnabled("E1"), oriPruneInstanceExtensions,
\* oriFlagLayerEnabled("L1"), oriCreateInstance ("E1" provided by "L1" only,
\* WARNING displayed), "E1" is not handed to vkCreateInstance and exactly one
\* WARNING naming "E1" was delivered over the sequence.
C2_PrunedBeforeLayerStaysPruned ==
    (trail = 4 /\ "WARNING" \in displayedErrorSeverities) =>
        /\ call.native.called
        /\ "E1" \notin Range(call.native.exts)
        /\ trailWarn = 1

\* C3: with "L1" requested (it is available) and "E1" requested, which only
\* "L1" provides, a resolution pass (oriPruneInstanceExtensions, or the one in
\* oriCreateInstance) keeps "E1", and the list handed to vkCreateInstance and
\* kept by the state that manages the instance contains "E1".
C3_ExtensionOfRequestedLayerKept ==
    [][(/\ call'.op \in {"oriPruneInstanceExtensions", "oriCreateInstance"}
        /\ "L1" \in Range(enabledLayers)
        /\ "E1" \in Range(enabledExtensions))
       => /\ "E1" \in Range(enabledExtensions')
          /\ call'.native.called => "E1" \in Range(call'.native.exts)]_vkVars

C3_Witness ==
    /\ call.op = "oriCreateInstance"
    /\ call.ret = "OK"
    /\ call.native.called
    /\ "L1" \in Range(call.native.layers)
    /\ "E1" \in Range(call.native.exts)
    /\ "E1" \in Range(enabledExtensions)
    /\ instances # <<>>

\* C4: oriPruneInstanceExtensions called twice in a row: the second call
\* removes nothing, returns false and delivers no WARNING.
C4_SecondPruneIsNoOp ==
    [][(Pruned(call) /\ Pruned(call'))
       => /\ enabledExtensions' = enabledExtensions
          /\ call'.ret = FALSE
          /\ \A k \in 1..Len(call'.emitted) :
                 call'.emitted[k].severity # "WARNING"]_vkVars

\* C5: oriPruneInstanceExtensions never adds or reorders: the extension list
\* after the call is a subsequence of the list before it, and the layer list
\* is unchanged.
C5_PruneOnlyRemoves ==
    [][call'.op = "oriPruneInstanceExtensions"
       => /\ IsSubsequence(enabledExtensions', enabledExtensions)
          /\ enabledLayers' = enabledLayers]_vkVars

C5_Witness ==
    /\ Pruned(call)
    /\ call.ret = TRUE
    /\ Len(enabledExtensions) >= 1

\* C6: oriFlagLayerEnabled(state, layer) with a layer the oracle reports
\* unavailable returns NOT_FOUND and changes neither the requested-layer
\* list nor the requested-extension list.
C6_UnavailableLayerRejected ==
    [][(/\ call'.op = "oriFlagLayerEnabled"
        /\ call'.arg[1] # NULL
        /\ call'.arg[2] \notin vkEnumerateInstanceLayerProperties)
       => /\ call'.ret = "ERROR_NOT_FOUND"
          /\ enabledLayers' = enabledLayers
          /\ enabledExtensions' = enabledExtensions]_vkVars

C6_Witness ==
    /\ call.op = "oriFlagLayerEnabled"
    /\ call.arg = <<StatePtr, "LX">>
    /\ call.ret = "ERROR_NOT_FOUND"
    /\ enabledLayers # <<>>
    /\ enabledExtensions # <<>>

Enumerated(c) ==
    c.op \in {"oriEnumerateEnabledLayers", "oriEnumerateEnabledInstanceExtensions"}

\* The list of the wrapper w that the enumerate function c.op reads.
StoredList(c, w) ==
    IF c.op = "oriEnumerateEnabledLayers" THEN w.layers ELSE w.extensions

\* Every output the caller gave holds the stored value.
WroteStoredLists(c) ==
    \A w \in vkInstances :
        /\ c.out.countWritten = (c.arg.countOut # NULL)
        /\ c.out.namesWritten = (c.arg.namesOut # NULL)
        /\ c.out.countWritten => c.out.count = Len(StoredList(c, w))
        /\ c.out.namesWritten => c.out.names = StoredList(c, w)

InvalidObjectReported(c) ==
    \E k \in 1..Len(c.emitted) : c.emitted[k].name = ORIERR_INVALID_OBJECT

\* The requested layers the oracle reports available, in request order.
AvailableLayers(requested) ==
    SelectSeq(requested, LAMBDA l : l \in vkEnumerateInstanceLayerProperties)

\* C8: after a successful oriInit the layer list stored for the instance is
\* exactly the subsequence of the requested layers that are available, the
\* stored extension list is exactly the subsequence of the requested
\* extensions available from the implementation or from one of those layers,
\* and both equal the lists handed to vkCreateInstance.
C8_StoredListsAreWhatIsAvailable ==
    (libCall.op = "oriInit" /\ libCall.ret = "OK") =>
        LET layers == AvailableLayers(reqLayers)
            exts == SelectSeq(reqExts, LAMBDA e : Resolvable(e, layers))
        IN  /\ vkInstances # {}
            /\ \A w \in vkInstances : w.layers = layers /\ w.extensions = exts
            /\ \A k \in 1..Len(libCall.native) :
                   /\ libCall.native[k].layers = layers
                   /\ libCall.native[k].exts = exts

\* C9 as stated: for a non-NULL instance pointer the enumerate functions
\* return OK with the stored lists if and only if the pointer was the
\* instanceOut of a successful oriInit not yet followed by oriTerminate, and
\* otherwise return ERROR, report INVALID_OBJECT and write nothing.
C9_EnumerateOkIffRegistered ==
    (Enumerated(libCall) /\ libCall.arg.instance # NULL) =>
        IF libCall.arg.instance = session
        THEN libCall.ret = "OK" /\ WroteStoredLists(libCall)
        ELSE /\ libCall.ret = "ERROR"
             /\ InvalidObjectReported(libCall)
             /\ libCall.out = NoOut

\* C9 amended: the same, for calls that give at least one output parameter
\* (with both outputs NULL the functions return NO_OUTPUT before the lookup).
C9_EnumerateOkIffRegisteredGivenOutput ==
    (/\ Enumerated(libCall)
     /\ libCall.arg.instance # NULL
     /\ (libCall.arg.countOut # NULL \/ libCall.arg.namesOut # NULL)) =>
        IF libCall.arg.instance = session
        THEN libCall.ret = "OK" /\ WroteStoredLists(libCall)
        ELSE /\ libCall.ret = "ERROR"
             /\ InvalidObjectReported(libCall)
             /\ libCall.out = NoOut

C9_Witness ==
    /\ libCall.op = "oriEnumerateEnabledInstanceExtensions"
    /\ libCall.arg.instance = UserInstance
    /\ session = UserInstance
    /\ libCall.ret = "OK"
    /\ libCall.out.namesWritten
    /\ libCall.out.names # <<>>

(***************************************************************************)
(* Properties of teardown (SpecState).                                     *)
(***************************************************************************)
\* C10: over any sequence of teardown calls, two in a row and duplicate
\* entries in the handle store included, vkDestroyInstance is never given a
\* handle that is not live (so at most once per live handle) and teardown
\* does not fault.
C10_TeardownDestroysOnceWithoutFault ==
    /\ ~strayDestroy
    /\ call.op = "oriFreeState" => call.ret # "FAULT"
    /\ libCall.op = "oriTerminate" => ~halted

C20_RelayedContextIsInstalledOne ==
    relayed.invoked => relayed.pointer = relayed.installed


(***************************************************************************)
(* Emissions and the severity mask (SpecEmit).                             *)
(***************************************************************************)
AlwaysShown == {"_oriError", "_oriFatalError"}

C19_ConfigureOverwritesMask ==
    libCall.op = "oriConfigureDebugMessages"
        => debugMessageSeverities = libCall.arg[1]

\* A call that disabled a severity enabled before and enabled another.
C19_Witness ==
    /\ libCall.op = "oriConfigureDebugMessages"
    /\ libCall.arg = <<{"ERROR"}>>
    /\ libCall.emitted # <<>>
    /\ debugMessageSeverities = {"ERROR"}



\* C12: after oriTerminate has returned, every native object made by the
\* successful creation calls since the last initialisation is destroyed, none
\* was destroyed twice, and both registries are empty.
C12_TerminateDestroysEverything ==
    libCall.op = "oriTerminate" =>
        /\ owed = NoObjects
        /\ ~strayDestroy
        /\ vkInstances = {}
        /\ vkDevices = {}

\* A call of oriCreateLogicalDevice whose required arguments are not NULL.
ValidDeviceCall(c) ==
    /\ c.op = "oriCreateLogicalDevice"
    /\ c.arg.deviceOut # NULL
    /\ c.arg.physicalDevice # NULL
    /\ ~c.arg.queuesNull
    /\ c.arg.extensionNames # NullArray

\* C13: a call of oriCreateLogicalDevice for a deviceOut an earlier call
\* succeeded for returns SKIPPED and does not call vkCreateDevice.
C13_SecondCreateSkipped ==
    [][(ValidDeviceCall(libCall') /\ libCall'.arg.deviceOut \in allocated) =>
           /\ libCall'.ret = "SKIPPED"
           /\ libCall'.native = <<>>
           /\ liveDevices' = liveDevices]_vars

\* C14: an oriInit with valid arguments that no successful oriInit precedes
\* without an oriTerminate in between (session is NULL) is not skipped:
\* it calls vkCreateInstance, and it returns OK with the instance registered
\* unless the driver fails to create an instance (ERROR) or memory runs out
\* (exit).
C14_InitAfterTerminateNotSkipped ==
    [][(/\ libCall'.op = "oriInit"
        /\ session = NULL
        /\ libCall'.arg.instanceOut # NULL
        /\ libCall'.arg.instanceCount >= 1) =>
           /\ libCall'.ret \in {"OK", "ERROR", "EXIT"}
           /\ libCall'.native # <<>>
           /\ libCall'.ret = "ERROR" =>
                  libCall'.emitted[Len(libCall'.emitted)].name
                      = ORIERR_INSTANCE_CREATION_FAIL
           /\ libCall'.ret = "EXIT" =>
                  libCall'.emitted[Len(libCall'.emitted)].name
                      = ORIFERR_MEMORY_ERROR
           /\ libCall'.ret = "OK" =>
                  /\ initialised'
                  /\ HASH_FIND_PTR(vkInstances', libCall'.arg.instanceOut) # {}]_vars

\* An oriInit of one instance returned OK and wrote the handle h1 while h2,
\* made by an earlier successful oriInit of two, is alive: h1 was destroyed
\* by an oriTerminate in between.
C14_Witness ==
    /\ libCall.op = "oriInit"
    /\ libCall.ret = "OK"
    /\ libCall.arg.instanceCount = 1
    /\ instanceMemory[1] = "h1"
    /\ "h2" \in liveInstances
    /\ liveDevices # {}

\* C15: oriInit called while the library is initialised returns SKIPPED,
\* calls nothing native and changes neither the registries, the mask, the
\* callbacks and allocators nor the caller's instanceOut.
C15_InitWhenInitialisedChangesNothing ==
    [][(libCall'.op = "oriInit" /\ initialised) =>
           /\ libCall'.ret = "SKIPPED"
           /\ libCall'.native = <<>>
           /\ libCall'.emitted = <<>>
           /\ UNCHANGED <<initialised, vkInstances, vkDevices,
                          debugMessageSeverities, callbacks, instanceMemory,
                          liveInstances, liveDevices, deviceMemory>>]_vars

C15_Witness ==
    /\ libCall.op = "oriInit"
    /\ libCall.ret = "SKIPPED"
    /\ libCall.arg.instanceOut # NULL
    /\ libCall.arg.instanceCount >= 1
    /\ initialised
    /\ vkInstances # {}
    /\ debugMessageSeverities # {}
    /\ callbacks.debug.fun # _oriDefaultDebugCallback
    /\ callbacks.vulkanAllocators # NULL

\* C16: after oriTerminate the library object equals the one the program
\* starts with: not initialised, empty registries, empty mask, the default
\* debug callback, NULL user data and NULL allocators.
C16_TerminateRestoresInitial ==
    libCall.op = "oriTerminate" =>
        /\ initialised = FALSE
        /\ vkInstances = {}
        /\ vkDevices = {}
        /\ debugMessageSeverities = {}
        /\ callbacks = CallbacksZero

C16_Witness ==
    /\ libCall.op = "oriTerminate"
    /\ libCall.arg.mask # {}
    /\ libCall.arg.callbacks.debug.fun # _oriDefaultDebugCallback
    /\ libCall.arg.callbacks.debug.pointer # NULL
    /\ libCall.arg.callbacks.vulkanAllocators # NULL
    /\ callbacks = CallbacksZero
    /\ debugMessageSeverities = {}
    /\ liveInstances = {}


\* C21: in every state oriGetDebugCallback returns a function, never NULL:
\* the callback the program set last, and the built-in default when it set
\* none, set NULL, or terminated the library since.
C21_DebugCallbackNeverNull ==
    /\ oriGetDebugCallback(callbacks) # NULL
    /\ oriGetDebugCallback(callbacks) =
           IF userCallback = NULL THEN _oriDefaultDebugCallback ELSE userCallback

\* oriSetDebugCallback(NULL, p) was called on an initialised library: p is
\* stored and the default callback is the one returned.
C21_Witness ==
    /\ libCall.op = "oriSetDebugCallback"
    /\ libCall.arg[1] = NULL
    /\ oriGetDebugCallback(callbacks) = _oriDefaultDebugCallback
    /\ oriGetDebugCallbackUserData(callbacks) = "ctxB"
    /\ initialised


(***************************************************************************)
(* Instance creation with unresolved extensions, the lists after a         *)
(* creation, and a failing driver.                                         *)
(***************************************************************************)
\* C22: when vkCreateInstance succeeds, the creation returns OK, whether or
\* not requested extensions were dropped as unresolved (stated for
\* oriCreateStateInstance, whose failures other than the driver's are the
\* statuses below).
C22_UnresolvedExtensionNeverFailsCreation ==
    (/\ call.op = "oriCreateStateInstance"
     /\ call.ret \notin {"ERROR_VULKAN_ERROR", "FAULT"}) =>
        call.ret = "OK"


\* A creation operation on a state that was given a state and an output
\* pointer and returned.
CreationReturned(ops) ==
    /\ call.op \in ops
    /\ call.arg[1] # NULL
    /\ call.arg[2] # NULL
    /\ call.ret # "FAULT"

C24_FailedAppendLeavesListUnchanged ==
    [][(/\ call'.op \in {"oriFlagLayerEnabled", "oriFlagInstanceExtensionEnabled"}
        /\ call'.ret = "MEMORY_ERROR") =>
           /\ call'.emitted = _ori_ThrowError(displayedErrorSeverities,
                                              ORERR_MEMORY_ERROR)
           /\ enabledLayers' = enabledLayers
           /\ enabledExtensions' = enabledExtensions]_vars

(***************************************************************************)
(* Properties of the dynamic-array macros (SpecArray).                     *)
(***************************************************************************)
\* C25: _ori_RemoveFromDArray with index < len removes exactly that element,
\* moves the later elements one to the left and decreases len by one; with
\* index >= len (index = len and len = 0 included) it changes neither the
\* contents nor len.
C25_RemoveAtInBoundsOrNothing ==
    [][call'.op = "_ori_RemoveFromDArray" =>
          LET index == call'.arg[1]
              len == Len(enabledExtensions)
          IN  /\ ~halted'
              /\ IF index < len
                 THEN enabledExtensions' =
                          [k \in 1..(len - 1) |->
                              IF k <= index THEN enabledExtensions[k]
                              ELSE enabledExtensions[k + 1]]
                 ELSE enabledExtensions' = enabledExtensions]_vars

\* A list with each run of adjacent equal elements collapsed to one element.
RECURSIVE Collapsed(_)
Collapsed(list) ==
    IF Len(list) <= 1 THEN list
    ELSE IF list[1] = list[2] THEN Collapsed(Tail(list))
    ELSE <<list[1]>> \o Collapsed(Tail(list))

\* C26: for every list of length 0 upward the deduplication macros end
\* without reading outside the list and leave the list with each run of
\* adjacent equal elements collapsed to one, non-adjacent duplicates kept.
C26_DeduplicationCollapsesRuns ==
    [][call'.op \in {"_ori_RemoveDArrayDuplicates", "__RemoveArrayDuplicates"} =>
          /\ ~halted'
          /\ enabledExtensions' = Collapsed(enabledExtensions)]_vars

(***************************************************************************)
(* Properties of a failing vkCreateInstance.                               *)
(***************************************************************************)
\* C27: when the native create call fails, the creation returns an error
\* status and adds no entry to the state's handle array, so that the
\* teardown never destroys that handle.
C27_FailedCreationRecordsNothing ==
    [][(/\ call'.op = "oriCreateStateInstance"
        /\ call'.ret = "ERROR_VULKAN_ERROR") =>
           instances' = instances]_vars

\* The requested extensions the oracle resolves, in request order.
ResolvedRequests(exts, layers) ==
    SelectSeq(exts, LAMBDA x : Resolvable(x, layers))

\* C28: the extension array and the count oriCreateStateInstance hands to
\* vkCreateInstance describe exactly the requested extensions that resolved:
\* the first enabledExtensionCount entries are non-NULL and are the
\* extensions that were not pruned, in request order.
C28_NativeCallGetsResolvedExtensions ==
    [][(/\ call'.op = "oriCreateStateInstance"
        /\ call'.native.called
        /\ ~Unreadable(enabledExtensions)
        /\ ~Unreadable(enabledLayers)) =>
           /\ NULL \notin Range(call'.native.exts)
           /\ call'.native.exts =
                  ResolvedRequests(enabledExtensions, enabledLayers)]_vars

(***************************************************************************)
(* Properties of the initialised flag (SpecLife, SpecLib).                 *)
(***************************************************************************)
\* C29: while the library is not initialised, oriCreateLogicalDevice is
\* refused with a status other than OK and does not call vkCreateDevice.
C29_NoDeviceBeforeInit ==
    [][(libCall'.op = "oriCreateLogicalDevice" /\ ~initialised) =>
           /\ libCall'.ret # "OK"
           /\ libCall'.native = <<>>
           /\ liveDevices' = liveDevices]_vars

\* C30: in every state reached by oriInit and oriTerminate calls, successful
\* or failing, the library is marked initialised exactly when the instance
\* table holds one wrapper and its key is the instanceOut of the last
\* successful oriInit; no two wrappers of the table have the same key.
C30_InitialisedIffOneWrapper ==
    /\ initialised <=>
           /\ Cardinality(vkInstances) = 1
           /\ \A w \in vkInstances : w.handle = session
    /\ \A v, w \in vkInstances : v.handle = w.handle => v = w

\* A second oriInit was refused while the table holds the wrapper of the
\* first.
C30_Witness ==
    /\ libCall.op = "oriInit"
    /\ libCall.ret = "SKIPPED"
    /\ initialised
    /\ Cardinality(vkInstances) = 1

=============================================================================
